---- MODULE Spec2Model ----
(***************************************************************************)
(* The OAuth2 authorization-code relay of google-mcp-remote               *)
(* (src/src/auth-handler.ts): GET /authorize, POST /authorize and          *)
(* GET /callback, the relay state codec btoa(JSON.stringify(.)) /          *)
(* JSON.parse(atob(.)), the browser that carries the consent cookie and    *)
(* the relay state, and the upstream provider.                             *)
(*                                                                         *)
(* Strings are sequences of UTF-16 code units (naturals).  JSON values are *)
(* tagged records.                                                         *)
(***************************************************************************)
EXTENDS Integers, Sequences, FiniteSets, TLC

\* ------------------------------------------------------------------------
\* Strings and characters
\* ------------------------------------------------------------------------

\* Code units of the punctuation the codec reads and writes.
Ch == [quote |-> 34, bslash |-> 92, lbrace |-> 123, rbrace |-> 125,
       lbrack |-> 91, rbrack |-> 93, colon |-> 58, comma |-> 44,
       pad |-> 61, plus |-> 43, slash |-> 47, minus |-> 45]

IsDigit(c) == c >= 48 /\ c <= 57

IsWhite(c) == c \in {9, 10, 13, 32}

RECURSIVE Concat(_)
\* The concatenation of a sequence of strings.
Concat(ss) == IF ss = <<>> THEN <<>> ELSE Head(ss) \o Concat(Tail(ss))

RECURSIVE Join(_, _)
\* Array.prototype.join / the comma-separated members of JSON text.
Join(ss, sep) ==
  IF ss = <<>> THEN <<>>
  ELSE IF Len(ss) = 1 THEN ss[1]
  ELSE ss[1] \o sep \o Join(Tail(ss), sep)

\* ------------------------------------------------------------------------
\* btoa / atob (WHATWG forgiving-base64)
\* ------------------------------------------------------------------------

\* The base64 alphabet: sextet 0..63 -> code unit.
B64Char(n) ==
  IF n < 26 THEN 65 + n
  ELSE IF n < 52 THEN 97 + (n - 26)
  ELSE IF n < 62 THEN 48 + (n - 52)
  ELSE IF n = 62 THEN Ch.plus ELSE Ch.slash

IsB64Char(c) ==
  \/ c >= 65 /\ c <= 90
  \/ c >= 97 /\ c <= 122
  \/ c >= 48 /\ c <= 57
  \/ c = Ch.plus
  \/ c = Ch.slash

\* Code unit of the alphabet -> sextet.
B64Val(c) ==
  IF c >= 65 /\ c <= 90 THEN c - 65
  ELSE IF c >= 97 /\ c <= 122 THEN c - 97 + 26
  ELSE IF c >= 48 /\ c <= 57 THEN c - 48 + 52
  ELSE IF c = Ch.plus THEN 62 ELSE 63

\* The base64 text of a byte string: three bytes make four sextets, a short
\* last group is padded with "=".
B64EncodeBytes(b) ==
  LET n == Len(b)
      Byte(i) == IF i <= n THEN b[i] ELSE 0
      Out(p) ==
        LET g == 3 * ((p - 1) \div 4)
            k == (p - 1) % 4
        IN CASE k = 0 -> B64Char(Byte(g + 1) \div 4)
             [] k = 1 -> B64Char(((Byte(g + 1) % 4) * 16) + (Byte(g + 2) \div 16))
             [] k = 2 -> IF g + 2 > n THEN Ch.pad
                         ELSE B64Char(((Byte(g + 2) % 16) * 4) + (Byte(g + 3) \div 64))
             [] OTHER -> IF g + 3 > n THEN Ch.pad ELSE B64Char(Byte(g + 3) % 64)
  IN [p \in 1..(4 * ((n + 2) \div 3)) |-> Out(p)]

\* btoa(s): throws InvalidCharacterError when s holds a code unit above U+00FF.
Btoa(s) ==
  IF \E i \in 1..Len(s) : s[i] > 255
  THEN [ok |-> FALSE, s |-> <<>>]
  ELSE [ok |-> TRUE, s |-> B64EncodeBytes(s)]

\* The bytes of a sequence of sextets: four sextets make three bytes, the
\* bits left over in a short last group are dropped.
B64DecodeSextets(v) ==
  LET m == Len(v)
      Sx(i) == IF i <= m THEN v[i] ELSE 0
      Out(q) ==
        LET g == 4 * ((q - 1) \div 3)
            k == (q - 1) % 3
        IN CASE k = 0 -> (Sx(g + 1) * 4) + (Sx(g + 2) \div 16)
             [] k = 1 -> ((Sx(g + 2) % 16) * 16) + (Sx(g + 3) \div 4)
             [] OTHER -> ((Sx(g + 3) % 4) * 64) + Sx(g + 4)
  IN [q \in 1..((m * 3) \div 4) |-> Out(q)]

\* atob drops ASCII white space first.
StripWhite(s) == SelectSeq(s, LAMBDA c : ~(IsWhite(c) \/ c = 12))

\* The trailing padding atob removes: one or two "=" of a text whose length
\* is a multiple of four.
StripPad(s) ==
  IF Len(s) > 0 /\ Len(s) % 4 = 0 /\ s[Len(s)] = Ch.pad
  THEN IF Len(s) > 1 /\ s[Len(s) - 1] = Ch.pad
       THEN SubSeq(s, 1, Len(s) - 2)
       ELSE SubSeq(s, 1, Len(s) - 1)
  ELSE s

\* atob(s): throws InvalidCharacterError on a character outside the
\* alphabet or a length of 1 modulo 4; the result is a binary string.
Atob(s) ==
  LET t == StripPad(StripWhite(s)) IN
  IF Len(t) % 4 = 1 \/ \E i \in 1..Len(t) : ~IsB64Char(t[i])
  THEN [ok |-> FALSE, s |-> <<>>]
  ELSE [ok |-> TRUE, s |-> B64DecodeSextets([i \in 1..Len(t) |-> B64Val(t[i])])]

\* ------------------------------------------------------------------------
\* JSON values, JSON.stringify, JSON.parse
\* ------------------------------------------------------------------------

Undefined == [t |-> "undefined"]
JNull == [t |-> "null"]
JBool(b) == [t |-> "bool", b |-> b]
JNum(n) == [t |-> "num", n |-> n]
JStr(s) == [t |-> "str", s |-> s]
JArr(a) == [t |-> "arr", a |-> a]
\* An object: its own property names in insertion order, and their values.
JObj(k, v) == [t |-> "obj", k |-> k, v |-> v]

\* obj.key for a value that is not null or undefined (a property read of
\* those throws TypeError; see Truthy and the handlers).
Get(o, key) ==
  IF o.t = "obj" /\ \E i \in 1..Len(o.k) : o.k[i] = key
  THEN o.v[CHOOSE i \in 1..Len(o.k) : o.k[i] = key]
  ELSE Undefined

\* The truthiness `!x` tests.
Truthy(x) ==
  CASE x.t = "undefined" -> FALSE
    [] x.t = "null" -> FALSE
    [] x.t = "bool" -> x.b
    [] x.t = "num" -> x.n # 0
    [] x.t = "str" -> x.s # <<>>
    [] OTHER -> TRUE

HexDigit(n) == IF n < 10 THEN 48 + n ELSE 97 + (n - 10)

IsHex(c) == IsDigit(c) \/ (c >= 97 /\ c <= 102) \/ (c >= 65 /\ c <= 70)

HexVal(c) ==
  IF IsDigit(c) THEN c - 48
  ELSE IF c >= 97 THEN c - 97 + 10 ELSE c - 65 + 10

\* QuoteJSONString's escape of one code unit (lone surrogates are outside
\* the alphabets used here).
EscapeChar(c) ==
  IF c = Ch.quote THEN << Ch.bslash, Ch.quote >>
  ELSE IF c = Ch.bslash THEN << Ch.bslash, Ch.bslash >>
  ELSE IF c = 8 THEN << Ch.bslash, 98 >>
  ELSE IF c = 9 THEN << Ch.bslash, 116 >>
  ELSE IF c = 10 THEN << Ch.bslash, 110 >>
  ELSE IF c = 12 THEN << Ch.bslash, 102 >>
  ELSE IF c = 13 THEN << Ch.bslash, 114 >>
  ELSE IF c < 32 THEN << Ch.bslash, 117, 48, 48, HexDigit(c \div 16), HexDigit(c % 16) >>
  ELSE << c >>

QuoteString(s) ==
  << Ch.quote >> \o Concat([i \in 1..Len(s) |-> EscapeChar(s[i])]) \o << Ch.quote >>

RECURSIVE Digits(_)
Digits(n) == IF n < 10 THEN << 48 + n >> ELSE Digits(n \div 10) \o << 48 + (n % 10) >>

RECURSIVE Stringify(_)
\* JSON.stringify(value): an undefined own property is left out, an
\* undefined array element is written as null.
Stringify(x) ==
  CASE x.t = "null" -> << 110, 117, 108, 108 >>
    [] x.t = "undefined" -> << 110, 117, 108, 108 >>
    [] x.t = "bool" -> IF x.b THEN << 116, 114, 117, 101 >> ELSE << 102, 97, 108, 115, 101 >>
    [] x.t = "num" -> Digits(x.n)
    [] x.t = "str" -> QuoteString(x.s)
    [] x.t = "arr" ->
         << Ch.lbrack >>
         \o Join([i \in 1..Len(x.a) |-> Stringify(x.a[i])], << Ch.comma >>)
         \o << Ch.rbrack >>
    [] x.t = "obj" ->
         LET kept == SelectSeq([i \in 1..Len(x.k) |-> i], LAMBDA i : x.v[i].t # "undefined")
         IN << Ch.lbrace >>
            \o Join([j \in 1..Len(kept) |->
                       QuoteString(x.k[kept[j]]) \o << Ch.colon >> \o Stringify(x.v[kept[j]])],
                    << Ch.comma >>)
            \o << Ch.rbrace >>

\* The code unit at position i, or -1 past the end of the text.
At(s, i) == IF i >= 1 /\ i <= Len(s) THEN s[i] ELSE -1

ParseFail == [ok |-> FALSE, v |-> Undefined, i |-> 0]

RECURSIVE SkipWs(_, _)
SkipWs(s, i) == IF IsWhite(At(s, i)) THEN SkipWs(s, i + 1) ELSE i

\* A value with property key set to val: a repeated name keeps its first
\* position and takes the last value.
PutMember(keys, vals, key, val) ==
  IF \E n \in 1..Len(keys) : keys[n] = key
  THEN [k |-> keys,
        v |-> [n \in 1..Len(vals) |-> IF keys[n] = key THEN val ELSE vals[n]]]
  ELSE [k |-> Append(keys, key), v |-> Append(vals, val)]

RECURSIVE ScanString(_, _, _)
\* The rest of a string literal from position i (after the opening quote).
ScanString(s, i, acc) ==
  LET c == At(s, i)
      e == At(s, i + 1)
  IN IF c < 32 THEN ParseFail
     ELSE IF c = Ch.quote THEN [ok |-> TRUE, v |-> JStr(acc), i |-> i + 1]
     ELSE IF c # Ch.bslash THEN ScanString(s, i + 1, Append(acc, c))
     ELSE IF e \in {Ch.quote, Ch.bslash, Ch.slash} THEN ScanString(s, i + 2, Append(acc, e))
     ELSE IF e = 98 THEN ScanString(s, i + 2, Append(acc, 8))
     ELSE IF e = 102 THEN ScanString(s, i + 2, Append(acc, 12))
     ELSE IF e = 110 THEN ScanString(s, i + 2, Append(acc, 10))
     ELSE IF e = 114 THEN ScanString(s, i + 2, Append(acc, 13))
     ELSE IF e = 116 THEN ScanString(s, i + 2, Append(acc, 9))
     ELSE IF e = 117 /\ \A d \in 2..5 : IsHex(At(s, i + d))
       THEN ScanString(s, i + 6,
              Append(acc, (HexVal(s[i + 2]) * 4096) + (HexVal(s[i + 3]) * 256)
                          + (HexVal(s[i + 4]) * 16) + HexVal(s[i + 5])))
     ELSE ParseFail

RECURSIVE ScanDigits(_, _, _)
ScanDigits(s, i, n) ==
  IF IsDigit(At(s, i)) THEN ScanDigits(s, i + 1, (n * 10) + (s[i] - 48))
  ELSE [ok |-> TRUE, v |-> JNum(n), i |-> i]

\* Whether the text holds the literal lit (a sequence of code units) at i.
HasLiteral(s, i, lit) == \A d \in 1..Len(lit) : At(s, i + d - 1) = lit[d]

RECURSIVE ParseValue(_, _)
RECURSIVE ParseMembers(_, _, _, _)
RECURSIVE ParseElements(_, _, _)

\* The members of an object from position i (after "{" or ","): a string
\* name, ":", a value, then "," or "}".
ParseMembers(s, i, keys, vals) ==
  LET j == SkipWs(s, i) IN
  IF At(s, j) # Ch.quote THEN ParseFail
  ELSE LET name == ScanString(s, j + 1, <<>>) IN
    IF ~name.ok THEN ParseFail
    ELSE LET c == SkipWs(s, name.i) IN
      IF At(s, c) # Ch.colon THEN ParseFail
      ELSE LET val == ParseValue(s, c + 1) IN
        IF ~val.ok THEN ParseFail
        ELSE LET n == SkipWs(s, val.i)
                 m == PutMember(keys, vals, name.v.s, val.v)
             IN IF At(s, n) = Ch.comma THEN ParseMembers(s, n + 1, m.k, m.v)
                ELSE IF At(s, n) = Ch.rbrace
                  THEN [ok |-> TRUE, v |-> JObj(m.k, m.v), i |-> n + 1]
                ELSE ParseFail

\* The elements of an array from position i (after "[" or ",").
ParseElements(s, i, acc) ==
  LET val == ParseValue(s, i) IN
  IF ~val.ok THEN ParseFail
  ELSE LET n == SkipWs(s, val.i) IN
    IF At(s, n) = Ch.comma THEN ParseElements(s, n + 1, Append(acc, val.v))
    ELSE IF At(s, n) = Ch.rbrack
      THEN [ok |-> TRUE, v |-> JArr(Append(acc, val.v)), i |-> n + 1]
    ELSE ParseFail

\* One JSON value from position i (numbers of the texts here are unsigned
\* integers without fraction or exponent).
ParseValue(s, i) ==
  LET j == SkipWs(s, i)
      c == At(s, j)
  IN IF c = Ch.quote THEN ScanString(s, j + 1, <<>>)
     ELSE IF c = Ch.lbrace THEN
       IF At(s, SkipWs(s, j + 1)) = Ch.rbrace
       THEN [ok |-> TRUE, v |-> JObj(<<>>, <<>>), i |-> SkipWs(s, j + 1) + 1]
       ELSE ParseMembers(s, j + 1, <<>>, <<>>)
     ELSE IF c = Ch.lbrack THEN
       IF At(s, SkipWs(s, j + 1)) = Ch.rbrack
       THEN [ok |-> TRUE, v |-> JArr(<<>>), i |-> SkipWs(s, j + 1) + 1]
       ELSE ParseElements(s, j + 1, <<>>)
     ELSE IF HasLiteral(s, j, << 110, 117, 108, 108 >>)
       THEN [ok |-> TRUE, v |-> JNull, i |-> j + 4]
     ELSE IF HasLiteral(s, j, << 116, 114, 117, 101 >>)
       THEN [ok |-> TRUE, v |-> JBool(TRUE), i |-> j + 4]
     ELSE IF HasLiteral(s, j, << 102, 97, 108, 115, 101 >>)
       THEN [ok |-> TRUE, v |-> JBool(FALSE), i |-> j + 5]
     ELSE IF IsDigit(c) /\ ~(c = 48 /\ IsDigit(At(s, j + 1)))
       THEN ScanDigits(s, j, 0)
     ELSE ParseFail

\* JSON.parse(text): throws SyntaxError unless the text is one value,
\* optionally surrounded by white space.
JsonParse(s) ==
  LET r == ParseValue(s, 1) IN
  IF r.ok /\ SkipWs(s, r.i) = Len(s) + 1
  THEN [ok |-> TRUE, v |-> r.v]
  ELSE [ok |-> FALSE, v |-> Undefined]

\* ------------------------------------------------------------------------
\* AuthRequest and the relay state codec
\* ------------------------------------------------------------------------

\* Property names, as code units.
Key == [responseType |-> << 114, 101, 115, 112, 111, 110, 115, 101, 84, 121, 112, 101 >>,
        clientId |-> << 99, 108, 105, 101, 110, 116, 73, 100 >>,
        redirectUri |-> << 114, 101, 100, 105, 114, 101, 99, 116, 85, 114, 105 >>,
        scope |-> << 115, 99, 111, 112, 101 >>,
        state |-> << 115, 116, 97, 116, 101 >>,
        codeChallenge |-> << 99, 111, 100, 101, 67, 104, 97, 108, 108, 101, 110, 103, 101 >>,
        oauthReqInfo |-> << 111, 97, 117, 116, 104, 82, 101, 113, 73, 110, 102, 111 >>]

\* The properties of an AuthRequest, in the order parseAuthRequest sets them.
AuthRequestKeys ==
  << Key.responseType, Key.clientId, Key.redirectUri, Key.scope, Key.state,
     Key.codeChallenge >>

\* An AuthRequest as parseAuthRequest returns it: clientId is "" when the
\* request names no client, codeChallenge is undefined without PKCE.
AuthRequest(clientId, redirectUri, scope, state, codeChallenge) ==
  JObj(AuthRequestKeys,
       << JStr(<< 99, 111, 100, 101 >>), JStr(clientId), JStr(redirectUri),
          JArr([i \in 1..Len(scope) |-> JStr(scope[i])]), JStr(state), codeChallenge >>)

\* Two values agree on every AuthRequest property.
SameRequest(x, y) == \A i \in 1..Len(AuthRequestKeys) :
  Get(x, AuthRequestKeys[i]) = Get(y, AuthRequestKeys[i])

\* A call that throws.
Threw == [ok |-> FALSE, v |-> Undefined]

\* StateEncode that serialises the client identifier alone.
StateEncodeClientOnly(oauthReqInfo) ==
  Btoa(Stringify(JObj(<< Key.clientId >>, << Get(oauthReqInfo, Key.clientId) >>)))

\* btoa(JSON.stringify(oauthReqInfo)): throws when btoa does.
StateEncode(oauthReqInfo) == Btoa(Stringify(oauthReqInfo))

\* JSON.parse(atob(state)): throws when atob or JSON.parse does.
StateDecode(state) ==
  LET bin == Atob(state) IN
  IF ~bin.ok THEN Threw ELSE JsonParse(bin.s)

\* ------------------------------------------------------------------------
\* Configuration, responses, cookies
\* ------------------------------------------------------------------------

\* env.COOKIE_ENCRYPTION_KEY, env.GOOGLE_OAUTH_CLIENT_ID, env.GOOGLE_OAUTH_CLIENT_SECRET.
Env == [COOKIE_ENCRYPTION_KEY |-> "K1",
        GOOGLE_OAUTH_CLIENT_ID |-> "google-client-id",
        GOOGLE_OAUTH_CLIENT_SECRET |-> "google-client-secret"]

\* The scopes redirectToGoogle asks the upstream provider for.
GoogleScopes ==
  << "profile", "email",
     "https://www.googleapis.com/auth/gmail.modify",
     "https://www.googleapis.com/auth/gmail.readonly",
     "https://www.googleapis.com/auth/drive",
     "https://www.googleapis.com/auth/calendar",
     "https://www.googleapis.com/auth/tasks" >>

\* A keyed MAC, symbolically: the key and the payload it was computed over.
Sign(key, payload) == [key |-> key, over |-> payload]

\* A request without the consent cookie.
NoCookie == [payload |-> {}, mac |-> Sign("", {})]

\* The Set-Cookie value the consent cookie manager issues for a set of
\* approved client identifiers.
SignedCookie(payload, key) == [payload |-> payload, mac |-> Sign(key, payload)]

\* The approved client identifiers of a request's cookie: none unless the
\* cookie verifies under the secret.
ApprovedClients(cookie, secret) ==
  IF cookie # NoCookie /\ cookie.mac = Sign(secret, cookie.payload)
  THEN cookie.payload ELSE {}

\* clientIdAlreadyApproved(request, clientId, cookieSecret)
ClientIdAlreadyApproved(request, clientId, secret) ==
  clientId \in ApprovedClients(request.cookie, secret)

NoLocation == [url |-> "", query |-> << >>]
NoForm == [codec |-> "", v |-> Undefined]

\* A Response: status, body, the Location and Set-Cookie headers, and the
\* hidden state field of an approval form in the body.
Response(status, body, location, setCookie, form) ==
  [status |-> status, body |-> body, location |-> location,
   setCookie |-> setCookie, form |-> form]

NoResponse == Response(0, "", NoLocation, NoCookie, NoForm)

\* c.text(body, status)
Text(body, status) == Response(status, body, NoLocation, NoCookie, NoForm)

\* What a handler evaluates to: a response it returned, or an exception it
\* let escape.
Returned(resp) == [threw |-> FALSE, resp |-> resp]
Thrown == [threw |-> TRUE, resp |-> NoResponse]

\* Hono answers an exception that escapes a handler with its default error
\* handler.
HonoResponse(result) ==
  IF result.threw THEN Text("Internal Server Error", 500) ELSE result.resp

\* new URL("/callback", request.url).href
CallbackUrl(request) == [origin |-> request.origin, path |-> "/callback"]

\* getUpstreamAuthorizeUrl(params): the upstream URL with its query.
GetUpstreamAuthorizeUrl(params) ==
  [url |-> params.upstream_url,
   query |-> [client_id |-> params.client_id, scope |-> params.scope,
              redirect_uri |-> params.redirect_uri, state |-> params.state,
              response_type |-> "code"]]

\* The hidden state field of the approval form: the encoded state, which
\* decodes to the value it was made from.
FormEncode(x) == [codec |-> "state", v |-> x]

\* renderApprovalDialog(request, {client, server, state})
RenderApprovalDialog(request, client, state) ==
  Response(200, "approval dialog", NoLocation, NoCookie, FormEncode(state))

\* parseRedirectApproval(request, cookieSecret): fails (InvalidSubmission,
\* an exception) when the hidden state field is absent or does not decode;
\* otherwise the state the form carries and, when the user chose to remember
\* the approval, the Set-Cookie header that adds the client to the approved
\* set.
ParseRedirectApproval(request, secret) ==
  LET info == Get(request.form.v, Key.oauthReqInfo)
      clientId == Get(info, Key.clientId)
  IN IF request.form.codec # "state"
     THEN [threw |-> TRUE, state |-> Undefined, headers |-> [setCookie |-> NoCookie]]
     ELSE [threw |-> FALSE,
           state |-> request.form.v,
           headers |-> [setCookie |->
             IF request.remember /\ Truthy(clientId)
             THEN SignedCookie(ApprovedClients(request.cookie, secret) \cup {clientId.s}, secret)
             ELSE NoCookie]]

\* ------------------------------------------------------------------------
\* Bounds and input alphabets
\* ------------------------------------------------------------------------

\* Concurrent browser flows.
MaxFlows == 2

\* Longest client-supplied state value of the codec specification.
MaxStateLen == 2

Flows == 1..MaxFlows

\* Client identifiers "a" and "b".
ClientIds == { << 97 >>, << 98 >> }

\* Code units a client-supplied value is made of: x, quote, backslash,
\* line feed, e-acute (Latin-1), check mark (U+2713, outside Latin-1).
Alphabet == { 120, 34, 92, 10, 233, 10003 }

\* The strings over a set of code units, up to a length.
RECURSIVE StringsUpTo(_, _)
StringsUpTo(chars, n) ==
  IF n = 0 THEN { << >> }
  ELSE LET shorter == StringsUpTo(chars, n - 1) IN
       shorter \cup { Append(s, c) : s \in shorter, c \in chars }

\* The scopes a downstream client asks for: "s" by client "a" or none,
\* "t" by client "b".
ScopeOf(clientId) == IF clientId = << 98 >> THEN << << 116 >> >> ELSE << << 115 >> >>

\* The AuthRequests a browser flow starts with: client "a", "b" or none
\* with state "x", and client "a" with a check mark as state.
FlowRequests ==
  { AuthRequest(c, << 117 >>, ScopeOf(c), << 120 >>, Undefined) :
      c \in ClientIds \cup { << >> } }
  \cup { AuthRequest(<< 97 >>, << 117 >>, ScopeOf(<< 97 >>), << 10003 >>, Undefined) }

\* Base64 texts of "abc", "null", "{}" and {"clientId":"a"}, and a text
\* that is not base64.
NotBase64 == << 33 >>
NotJson == B64EncodeBytes(<< 97, 98, 99 >>)
NullJson == B64EncodeBytes(<< 110, 117, 108, 108 >>)
EmptyObjectJson == B64EncodeBytes(<< 123, 125 >>)
ClientOnlyJson ==
  B64EncodeBytes(<< 123, 34 >> \o Key.clientId \o << 34, 58, 34, 97, 34, 125 >>)

\* The state query values a hand-made GET /callback carries: none, the
\* malformed ones, and one a client made up itself.
CallbackStates ==
  { Undefined, JStr(NotBase64), JStr(NotJson), JStr(NullJson), JStr(EmptyObjectJson),
    JStr(ClientOnlyJson) }

\* The authorization codes the upstream provider issues: "c1", "c2".
Codes == { << 99, 49 >>, << 99, 50 >> }

\* The code query values of GET /callback: none, or a code.
CallbackCodes == { Undefined } \cup { JStr(c) : c \in Codes }

\* A hidden state field that does not decode.
GarbledForm == [codec |-> "garbled", v |-> Undefined]

\* The form of a request by client "a" that asks for scope "t".
OtherScopeForm ==
  FormEncode(JObj(<< Key.oauthReqInfo >>,
                  << AuthRequest(<< 97 >>, << 117 >>, << << 116 >> >>, << 120 >>, Undefined) >>))

\* The hidden state fields a hand-made POST /authorize carries: none, one
\* that does not decode, one without oauthReqInfo, and the form of every
\* request.
PostForms ==
  { NoForm, GarbledForm, FormEncode(JObj(<< >>, << >>)), OtherScopeForm }
  \cup { FormEncode(JObj(<< Key.oauthReqInfo >>, << r >>)) : r \in FlowRequests }

\* A cookie the consent cookie manager issued under another secret.
OtherSecretCookie == SignedCookie(ClientIds, "K0")

\* A cookie whose payload was changed after signing.
TamperedCookie == [payload |-> ClientIds, mac |-> Sign(Env.COOKIE_ENCRYPTION_KEY, {})]

\* A cookie without signature.
UnsignedCookie == [payload |-> ClientIds, mac |-> Sign("", {})]

\* A cookie value that does not split into signature and payload: no
\* payload can be read from it and nothing in it verifies.
MalformedCookie == [payload |-> {}, mac |-> Sign("", ClientIds)]

\* Cookies a request may carry besides the browser's own.
ForgedCookies == { OtherSecretCookie, TamperedCookie, UnsignedCookie, MalformedCookie }

\* The origin the requests arrive on.
Origin == "https://worker.example"

\* ------------------------------------------------------------------------
\* The handlers of auth-handler.ts
\* ------------------------------------------------------------------------

\* RedirectToGoogle that asks for the identity scopes alone when the
\* downstream request asks for scope "t".
RedirectToGoogleByRequestScope(request, oauthReqInfo, headers) ==
  LET state == StateEncode(oauthReqInfo) IN
  IF ~state.ok THEN Thrown
  ELSE Returned(Response(302, "",
         GetUpstreamAuthorizeUrl(
           [upstream_url |-> "https://accounts.google.com/o/oauth2/v2/auth",
            scope |-> IF Get(oauthReqInfo, Key.scope) = JArr(<< JStr(<< 116 >>) >>)
                      THEN SubSeq(GoogleScopes, 1, 2) ELSE GoogleScopes,
            client_id |-> Env.GOOGLE_OAUTH_CLIENT_ID,
            redirect_uri |-> CallbackUrl(request),
            state |-> state.s]),
         headers.setCookie, NoForm))

\* redirectToGoogle(request, oauthReqInfo, headers)
RedirectToGoogle(request, oauthReqInfo, headers) ==
  LET state == StateEncode(oauthReqInfo) IN
  IF ~state.ok THEN Thrown
  ELSE Returned(Response(302, "",
         GetUpstreamAuthorizeUrl(
           [upstream_url |-> "https://accounts.google.com/o/oauth2/v2/auth",
            scope |-> GoogleScopes,
            client_id |-> Env.GOOGLE_OAUTH_CLIENT_ID,
            redirect_uri |-> CallbackUrl(request),
            state |-> state.s]),
         headers.setCookie, NoForm))

\* AuthorizeGet without the check of the client identifier.
AuthorizeGetNoClientCheck(request, oauthReqInfo) ==
  LET clientId == Get(oauthReqInfo, Key.clientId) IN
  IF ClientIdAlreadyApproved(request, clientId.s, Env.COOKIE_ENCRYPTION_KEY)
  THEN [result |-> RedirectToGoogle(request, oauthReqInfo, [setCookie |-> NoCookie]),
        calls |-> << "parseAuthRequest", "clientIdAlreadyApproved" >>,
        approved |-> TRUE]
  ELSE [result |-> Returned(RenderApprovalDialog(request, clientId.s,
                     JObj(<< Key.oauthReqInfo >>, << oauthReqInfo >>))),
        calls |-> << "parseAuthRequest", "clientIdAlreadyApproved",
                     "lookupClient", "renderApprovalDialog" >>,
        approved |-> FALSE]

\* AuthorizeGet that skips the dialog for any request that carries a cookie.
AuthorizeGetAnyCookie(request, oauthReqInfo) ==
  LET clientId == Get(oauthReqInfo, Key.clientId) IN
  IF ~Truthy(clientId)
  THEN [result |-> Returned(Text("Invalid request", 400)),
        calls |-> << "parseAuthRequest" >>, approved |-> FALSE]
  ELSE IF request.cookie # NoCookie
  THEN [result |-> RedirectToGoogle(request, oauthReqInfo, [setCookie |-> NoCookie]),
        calls |-> << "parseAuthRequest", "clientIdAlreadyApproved" >>,
        approved |-> ClientIdAlreadyApproved(request, clientId.s, Env.COOKIE_ENCRYPTION_KEY)]
  ELSE [result |-> Returned(RenderApprovalDialog(request, clientId.s,
                     JObj(<< Key.oauthReqInfo >>, << oauthReqInfo >>))),
        calls |-> << "parseAuthRequest", "clientIdAlreadyApproved",
                     "lookupClient", "renderApprovalDialog" >>,
        approved |-> FALSE]

\* AuthorizeGet that reads the approved clients from the cookie's payload
\* without verifying the signature.
AuthorizeGetPayloadOnly(request, oauthReqInfo) ==
  LET clientId == Get(oauthReqInfo, Key.clientId) IN
  IF ~Truthy(clientId)
  THEN [result |-> Returned(Text("Invalid request", 400)),
        calls |-> << "parseAuthRequest" >>, approved |-> FALSE]
  ELSE IF clientId.s \in request.cookie.payload
  THEN [result |-> RedirectToGoogle(request, oauthReqInfo, [setCookie |-> NoCookie]),
        calls |-> << "parseAuthRequest", "clientIdAlreadyApproved" >>,
        approved |-> TRUE]
  ELSE [result |-> Returned(RenderApprovalDialog(request, clientId.s,
                     JObj(<< Key.oauthReqInfo >>, << oauthReqInfo >>))),
        calls |-> << "parseAuthRequest", "clientIdAlreadyApproved",
                     "lookupClient", "renderApprovalDialog" >>,
        approved |-> FALSE]

\* AuthorizeGet that rejects a request whose cookie does not verify.
AuthorizeGetRejectsBadCookie(request, oauthReqInfo) ==
  LET clientId == Get(oauthReqInfo, Key.clientId) IN
  IF ~Truthy(clientId)
  THEN [result |-> Returned(Text("Invalid request", 400)),
        calls |-> << "parseAuthRequest" >>, approved |-> FALSE]
  ELSE IF ClientIdAlreadyApproved(request, clientId.s, Env.COOKIE_ENCRYPTION_KEY)
  THEN [result |-> RedirectToGoogle(request, oauthReqInfo, [setCookie |-> NoCookie]),
        calls |-> << "parseAuthRequest", "clientIdAlreadyApproved" >>,
        approved |-> TRUE]
  ELSE IF request.cookie # NoCookie
          /\ request.cookie # SignedCookie(request.cookie.payload, Env.COOKIE_ENCRYPTION_KEY)
  THEN [result |-> Returned(Text("Invalid cookie", 400)),
        calls |-> << "parseAuthRequest", "clientIdAlreadyApproved" >>,
        approved |-> FALSE]
  ELSE [result |-> Returned(RenderApprovalDialog(request, clientId.s,
                     JObj(<< Key.oauthReqInfo >>, << oauthReqInfo >>))),
        calls |-> << "parseAuthRequest", "clientIdAlreadyApproved",
                     "lookupClient", "renderApprovalDialog" >>,
        approved |-> FALSE]

\* app.get("/authorize"): the result, the outbound calls made in order, and
\* what the consent cookie check returned.
AuthorizeGet(request, oauthReqInfo) ==
  LET clientId == Get(oauthReqInfo, Key.clientId) IN
  IF ~Truthy(clientId)
  THEN [result |-> Returned(Text("Invalid request", 400)),
        calls |-> << "parseAuthRequest" >>, approved |-> FALSE]
  ELSE IF ClientIdAlreadyApproved(request, clientId.s, Env.COOKIE_ENCRYPTION_KEY)
  THEN [result |-> RedirectToGoogle(request, oauthReqInfo, [setCookie |-> NoCookie]),
        calls |-> << "parseAuthRequest", "clientIdAlreadyApproved" >>,
        approved |-> TRUE]
  ELSE [result |-> Returned(RenderApprovalDialog(request, clientId.s,
                     JObj(<< Key.oauthReqInfo >>, << oauthReqInfo >>))),
        calls |-> << "parseAuthRequest", "clientIdAlreadyApproved",
                     "lookupClient", "renderApprovalDialog" >>,
        approved |-> FALSE]

\* AuthorizePost that hands the upstream client secret to the cookie manager.
AuthorizePostOtherSecret(request) ==
  LET parsed == ParseRedirectApproval(request, Env.GOOGLE_OAUTH_CLIENT_SECRET) IN
  IF parsed.threw THEN Thrown
  ELSE IF ~Truthy(Get(parsed.state, Key.oauthReqInfo))
  THEN Returned(Text("Invalid request", 400))
  ELSE RedirectToGoogle(request, Get(parsed.state, Key.oauthReqInfo), parsed.headers)

\* app.post("/authorize")
AuthorizePost(request) ==
  LET parsed == ParseRedirectApproval(request, Env.COOKIE_ENCRYPTION_KEY) IN
  IF parsed.threw THEN Thrown
  ELSE IF ~Truthy(Get(parsed.state, Key.oauthReqInfo))
  THEN Returned(Text("Invalid request", 400))
  ELSE RedirectToGoogle(request, Get(parsed.state, Key.oauthReqInfo), parsed.headers)

\* app.get("/callback") up to the token exchange: the query checks and the
\* decoding of the state.  "next" tells whether the handler goes on to call
\* fetchUpstreamAuthToken.
CallbackStart(state, code) ==
  IF ~Truthy(state)
  THEN [next |-> FALSE, result |-> Returned(Text("Missing state", 400)), oauthReqInfo |-> Undefined]
  ELSE LET decoded == StateDecode(state.s) IN
    IF ~decoded.ok \/ decoded.v.t = "null"
    THEN [next |-> FALSE, result |-> Thrown, oauthReqInfo |-> Undefined]
    ELSE IF ~Truthy(Get(decoded.v, Key.clientId))
    THEN [next |-> FALSE, result |-> Returned(Text("Invalid state", 400)), oauthReqInfo |-> decoded.v]
    ELSE IF ~Truthy(code)
    THEN [next |-> FALSE, result |-> Returned(Text("Missing code", 400)), oauthReqInfo |-> decoded.v]
    ELSE [next |-> TRUE, result |-> Returned(NoResponse), oauthReqInfo |-> decoded.v]

\* TokenRequest that sends the URL of the callback request itself, query
\* included, as redirect_uri.
TokenRequestOwnUrl(request, code) ==
  [upstream_url |-> "https://oauth2.googleapis.com/token",
   client_id |-> Env.GOOGLE_OAUTH_CLIENT_ID,
   client_secret |-> Env.GOOGLE_OAUTH_CLIENT_SECRET,
   code |-> code,
   redirect_uri |-> [origin |-> request.origin, path |-> "/callback", query |-> code]]

\* The arguments of fetchUpstreamAuthToken.
TokenRequest(request, code) ==
  [upstream_url |-> "https://oauth2.googleapis.com/token",
   client_id |-> Env.GOOGLE_OAUTH_CLIENT_ID,
   client_secret |-> Env.GOOGLE_OAUTH_CLIENT_SECRET,
   code |-> code,
   redirect_uri |-> CallbackUrl(request)]

\* CallbackAfterToken that answers a failed exchange with a message of its own.
CallbackAfterTokenOwnMessage(accessToken, errResponse) ==
  IF errResponse # NoResponse
  THEN [next |-> FALSE, result |-> Returned(Text("Failed to fetch access token", 500))]
  ELSE [next |-> TRUE, result |-> Returned(NoResponse)]

\* CallbackAfterToken that goes on whatever the exchange returned.
CallbackAfterTokenIgnoresError(accessToken, errResponse) ==
  [next |-> TRUE, result |-> Returned(NoResponse)]

\* if (errResponse) return errResponse: whether the handler goes on to the
\* user-info fetch after fetchUpstreamAuthToken returned [accessToken, errResponse].
CallbackAfterToken(accessToken, errResponse) ==
  IF errResponse # NoResponse
  THEN [next |-> FALSE, result |-> Returned(errResponse)]
  ELSE [next |-> TRUE, result |-> Returned(NoResponse)]

\* The user-info request: the Authorization header carries the token.
UserInfoRequest(accessToken) ==
  [url |-> "https://www.googleapis.com/oauth2/v3/userinfo",
   Authorization |-> << "Bearer", accessToken >>]

\* CallbackAfterUserInfo that answers a failed fetch with status 400.
CallbackAfterUserInfoAs400(userResponse) ==
  IF ~userResponse.ok
  THEN [next |-> FALSE, result |-> Returned(Text("Failed to fetch user info", 400))]
  ELSE [next |-> TRUE, result |-> Returned(NoResponse)]

\* if (!userResponse.ok) return 500
CallbackAfterUserInfo(userResponse) ==
  IF ~userResponse.ok
  THEN [next |-> FALSE, result |-> Returned(Text("Failed to fetch user info", 500))]
  ELSE [next |-> TRUE, result |-> Returned(NoResponse)]

\* CompleteAuthorizationArgs with the e-mail address as the user identifier.
CompleteAuthorizationArgsEmail(oauthReqInfo, user, accessToken) ==
  [request |-> oauthReqInfo,
   userId |-> user.email,
   metadata |-> [label |-> user.name],
   scope |-> Get(oauthReqInfo, Key.scope),
   props |-> [sub |-> user.sub, name |-> user.name, email |-> user.email,
              accessToken |-> accessToken]]

\* CompleteAuthorizationArgs with the access token as the user identifier.
CompleteAuthorizationArgsTokenAsUser(oauthReqInfo, user, accessToken) ==
  [request |-> oauthReqInfo,
   userId |-> accessToken,
   metadata |-> [label |-> user.name],
   scope |-> Get(oauthReqInfo, Key.scope),
   props |-> [sub |-> user.sub, name |-> user.name, email |-> user.email,
              accessToken |-> accessToken]]

\* The argument of completeAuthorization.
CompleteAuthorizationArgs(oauthReqInfo, user, accessToken) ==
  [request |-> oauthReqInfo,
   userId |-> user.sub,
   metadata |-> [label |-> user.name],
   scope |-> Get(oauthReqInfo, Key.scope),
   props |-> [sub |-> user.sub, name |-> user.name, email |-> user.email,
              accessToken |-> accessToken]]

\* Response.redirect(redirectTo)
CallbackRedirect(redirectTo) ==
  Returned(Response(302, "", redirectTo, NoCookie, NoForm))

\* ------------------------------------------------------------------------
\* The upstream provider and the downstream authorization component
\* ------------------------------------------------------------------------

NoToken == ""

\* The access token the token endpoint grants for a code.
TokenOf(code) == IF code = << 99, 49 >> THEN "token-1" ELSE "token-2"

NoUser == [sub |-> "", name |-> "", email |-> ""]

\* The claims the user-info endpoint returns for a token.
UserOf(token) ==
  IF token = "token-1"
  THEN [sub |-> "u1", name |-> "Jane", email |-> "jane@x.com"]
  ELSE [sub |-> "u2", name |-> "Joe", email |-> "joe@x.com"]

\* The error response fetchUpstreamAuthToken passes through.
UpstreamError == Text("upstream: invalid_grant", 400)

\* fetchUpstreamAuthToken(params): [accessToken, null] when the upstream
\* token endpoint accepts the code, [null, errResponse] otherwise.
FetchUpstreamAuthToken(params, accepted) ==
  IF accepted
  THEN [accessToken |-> TokenOf(params.code.s), errResponse |-> NoResponse]
  ELSE [accessToken |-> NoToken, errResponse |-> UpstreamError]

\* The redirectTo completeAuthorization returns: the client's redirect URI
\* with the grant for the user.
RedirectTo(args) ==
  [url |-> Get(args.request, Key.redirectUri),
   query |-> [code |-> << "grant", args.userId >>, state |-> Get(args.request, Key.state)]]

NoArgs == CompleteAuthorizationArgs(Undefined, NoUser, NoToken)

\* ------------------------------------------------------------------------
\* The tools: registration, and the handlers that delete upstream data
\* ------------------------------------------------------------------------

\* The names under which registerAllTools registers tools: those of
\* registerGmailTools, registerCalendarTools, registerDriveTools,
\* registerTasksTools, registerContactsTools and registerYouTubeTools.
RegisteredByAll ==
  { "gmail_sendEmail", "gmail_listEmails", "gmail_getEmail", "gmail_draftEmail",
    "gmail_deleteEmail", "gmail_modifyLabels", "gmail_listLabels",
    "calendar_listEvents", "calendar_createEvent", "calendar_getEvent",
    "calendar_updateEvent", "calendar_deleteEvent", "calendar_findFreeTime",
    "calendar_listCalendars",
    "drive_listFiles", "drive_getFileContent", "drive_createFile",
    "drive_updateFileContent", "drive_deleteFile", "drive_shareFile",
    "tasks_listTaskLists", "tasks_listTasks", "tasks_getTask", "tasks_createTask",
    "tasks_updateTask", "tasks_completeTask", "tasks_deleteTask",
    "tasks_createTaskList", "tasks_deleteTaskList",
    "contacts.listContacts", "contacts.searchContacts", "contacts.getContact",
    "youtube.searchVideos", "youtube.getVideoDetails" }

\* GoogleMcpRemote.init(): the registry of this.server afterwards.
AgentInit(tools) == tools \cup { "add" }

\* The messages, files and task lists of the account.
MessageIds == { "m1", "m2" }
FileIds == { "d1", "d2" }
TaskListIds == { "@default", "L1" }

\* The `permanently` argument as the caller gives it: omitted, false, true.
PermanentlyArgs ==
  { [given |-> FALSE, v |-> FALSE], [given |-> TRUE, v |-> FALSE], [given |-> TRUE, v |-> TRUE] }

\* z.boolean().default(false)
ZodDefaultFalse(arg) == IF arg.given THEN arg.v ELSE FALSE

\* What a tool handler did: the API calls it made, each a method and the
\* item it names, and the text it returned.
ToolResult(api, text) == [api |-> api, text |-> text]

\* The error an API call on an item ends with: 404 for an item that is
\* gone, otherwise none or, when the upstream service fails, another one.
ApiError(item, fails) == IF item = "gone" THEN "404" ELSE IF fails THEN "other" ELSE "none"

\* GmailDeleteEmail that deletes for good whatever the argument.
GmailDeleteEmailAlwaysPermanent(messageId, permanently, error) ==
  ToolResult(<< [method |-> "gmail.users.messages.delete", id |-> messageId] >>,
             IF error = "none" THEN "permanently deleted"
             ELSE IF error = "404" THEN "not found" ELSE "error")

\* gmail_deleteEmail: error is the outcome of the API call it makes.
GmailDeleteEmail(messageId, permanently, error) ==
  IF permanently
  THEN ToolResult(<< [method |-> "gmail.users.messages.delete", id |-> messageId] >>,
                IF error = "none" THEN "permanently deleted"
                ELSE IF error = "404" THEN "not found" ELSE "error")
  ELSE ToolResult(<< [method |-> "gmail.users.messages.trash", id |-> messageId] >>,
                IF error = "none" THEN "moved to trash"
                ELSE IF error = "404" THEN "not found" ELSE "error")

\* drive_deleteFile
DriveDeleteFile(fileId, permanently, error) ==
  IF permanently
  THEN ToolResult(<< [method |-> "drive.files.delete", id |-> fileId] >>,
                IF error = "none" THEN "permanently deleted"
                ELSE IF error = "404" THEN "not found" ELSE "error")
  ELSE ToolResult(<< [method |-> "drive.files.update trashed", id |-> fileId] >>,
                IF error = "none" THEN "moved to trash"
                ELSE IF error = "404" THEN "not found" ELSE "error")

\* TasksDeleteTaskList without the check of the default list.
TasksDeleteTaskListUnguarded(taskListId, error) ==
  ToolResult(<< [method |-> "tasks.tasklists.delete", id |-> taskListId] >>,
             IF error = "none" THEN "deleted successfully"
             ELSE IF error = "404" THEN "not found" ELSE "error")

\* tasks_deleteTaskList
TasksDeleteTaskList(taskListId, error) ==
  IF taskListId = "@default"
  THEN ToolResult(<< >>, "cannot delete the default task list")
  ELSE ToolResult(<< [method |-> "tasks.tasklists.delete", id |-> taskListId] >>,
                IF error = "none" THEN "deleted successfully"
                ELSE IF error = "404" THEN "not found" ELSE "error")

\* The upstream service carries out the API calls that did not fail: trash
\* and delete on the items of one collection.
Upstream(items, api, error) ==
  [i \in DOMAIN items |->
     IF error = "none" /\ \E k \in 1..Len(api) : api[k].id = i
     THEN IF \E k \in 1..Len(api) :
               api[k].id = i /\ api[k].method \in { "gmail.users.messages.trash",
                                                    "drive.files.update trashed" }
          THEN "trashed" ELSE "gone"
     ELSE items[i]]

\* No tool has been called.
NoCall == [tool |-> "", id |-> "", permanently |-> [given |-> FALSE, v |-> FALSE],
           api |-> << >>, text |-> ""]

\* ------------------------------------------------------------------------
\* calendar_findFreeTime
\* ------------------------------------------------------------------------

\* Times are milliseconds since the epoch, here whole minutes from 0 to
\* MaxTime; a call finds slots between minute 1 and minute MaxTime - 2 for
\* at most MaxBusy busy intervals.
MaxTime == 5
MaxBusy == 3

\* The busy intervals the free/busy query can report, in the order of the
\* response: any intervals with start before end, of any calendar.
BusyLists ==
  LET Intervals == { [start |-> a * 60000, end |-> b * 60000] :
                       a \in 0..MaxTime, b \in 0..MaxTime } IN
  UNION { [1..n -> { i \in Intervals : i.start < i.end }] : n \in 0..MaxBusy }

\* busySlots.sort((a, b) => a.start - b.start): a stable sort by start.
SortByStart(busySlots) ==
  LET Insert(sorted, x) ==
        LET k == Cardinality({ i \in 1..Len(sorted) : sorted[i].start <= x.start }) IN
        SubSeq(sorted, 1, k) \o << x >> \o SubSeq(sorted, k + 1, Len(sorted))
      F[n \in 0..Len(busySlots)] ==
        IF n = 0 THEN << >> ELSE Insert(F[n - 1], busySlots[n])
  IN F[Len(busySlots)]

\* MergeBusy that ends a merged interval where the interval merged last ends.
MergeBusyLastEnd(busySlots) ==
  LET F[n \in 1..Len(busySlots)] ==
        IF n = 1 THEN [merged |-> << >>, currentSlot |-> busySlots[1]]
        ELSE LET p == F[n - 1] IN
             IF busySlots[n].start <= p.currentSlot.end
             THEN [merged |-> p.merged,
                   currentSlot |-> [p.currentSlot EXCEPT !.end = busySlots[n].end]]
             ELSE [merged |-> Append(p.merged, p.currentSlot), currentSlot |-> busySlots[n]]
  IN IF Len(busySlots) = 0 THEN << >>
     ELSE Append(F[Len(busySlots)].merged, F[Len(busySlots)].currentSlot)

\* The loop that merges overlapping busy slots, on the sorted list.
MergeBusy(busySlots) ==
  LET F[n \in 1..Len(busySlots)] ==
        IF n = 1 THEN [merged |-> << >>, currentSlot |-> busySlots[1]]
        ELSE LET p == F[n - 1] IN
             IF busySlots[n].start <= p.currentSlot.end
             THEN [merged |-> p.merged,
                   currentSlot |-> [p.currentSlot EXCEPT
                                      !.end = IF @ >= busySlots[n].end
                                              THEN @ ELSE busySlots[n].end]]
             ELSE [merged |-> Append(p.merged, p.currentSlot), currentSlot |-> busySlots[n]]
  IN IF Len(busySlots) = 0 THEN << >>
     ELSE Append(F[Len(busySlots)].merged, F[Len(busySlots)].currentSlot)

\* The loop over the merged busy slots and the check after the last one.
\* A slot keeps its times to the millisecond (toISOString).
FreeSlots(mergedBusySlots, timeMin, timeMax, durationMs) ==
  LET F[n \in 0..Len(mergedBusySlots)] ==
        IF n = 0 THEN [freeSlots |-> << >>, currentCheckTime |-> timeMin]
        ELSE LET p == F[n - 1]
                 busy == mergedBusySlots[n]
             IN [freeSlots |->
                   IF /\ busy.start > p.currentCheckTime
                      /\ busy.start - p.currentCheckTime >= durationMs
                   THEN Append(p.freeSlots,
                               [start |-> p.currentCheckTime, end |-> busy.start])
                   ELSE p.freeSlots,
                 currentCheckTime |->
                   IF p.currentCheckTime >= busy.end THEN p.currentCheckTime ELSE busy.end]
      r == F[Len(mergedBusySlots)]
  IN IF timeMax > r.currentCheckTime /\ timeMax - r.currentCheckTime >= durationMs
     THEN Append(r.freeSlots, [start |-> r.currentCheckTime, end |-> timeMax])
     ELSE r.freeSlots

\* The handler of calendar_findFreeTime, given the busy slots of the
\* free/busy response.
FindFreeTime(startTime, endTime, durationMinutes, busySlots) ==
  FreeSlots(MergeBusy(SortByStart(busySlots)), startTime, endTime,
            durationMinutes * 60 * 1000)

\* No call of calendar_findFreeTime.
IdleCalendar ==
  [pc |-> "idle", startTime |-> 0, endTime |-> 0, durationMinutes |-> 1,
   busy |-> << >>, freeSlots |-> << >>]

\* ------------------------------------------------------------------------
\* _updateTaskHelper, tasks_updateTask, tasks_completeTask
\* ------------------------------------------------------------------------

\* A field a task or a request body does not have.
Absent == "(absent)"

\* The tasks stored upstream: one with notes and a due date, one without.
StoredTasks ==
  { [title |-> "t1", notes |-> "n1", due |-> "d1", status |-> "needsAction"],
    [title |-> "t1", notes |-> Absent, due |-> Absent, status |-> "completed"] }

\* The `updates` argument of tasks_updateTask: each field omitted
\* (undefined) or given; notes and due can be given as null.
UpdateArgs ==
  [title : { "undefined", "t2" },
   notes : { "undefined", "null", "n2" },
   due : { "undefined", "null", "d2" },
   status : { "undefined", "needsAction", "completed" }]

\* RequestBody that holds the given fields alone.
RequestBodyUpdatesOnly(currentTask, updates) ==
  [f \in { "title", "notes", "due", "status" } |->
     IF updates[f] \in { "undefined", "null" } THEN Absent ELSE updates[f]]

\* The body _updateTaskHelper sends: the current task with the fields of
\* updates that are not undefined merged over it, and notes and due removed
\* when given as null.  Fields set to undefined are not serialised.
RequestBody(currentTask, updates) ==
  [f \in { "title", "notes", "due", "status" } |->
     LET merged == IF updates[f] # "undefined" THEN updates[f] ELSE currentTask[f] IN
     IF f \in { "notes", "due" } /\ updates[f] = "null" THEN Absent ELSE merged]

\* No call of a tasks tool.
IdleTasks ==
  [stored |-> [f \in { "title", "notes", "due", "status" } |-> Absent],
   helper |-> [p \in { "tasks_completeTask", "tasks_updateTask" } |->
                 [pc |-> "idle", updates |-> [f \in { "title", "notes", "due", "status" } |-> "undefined"],
                  currentTask |-> [f \in { "title", "notes", "due", "status" } |-> Absent],
                  before |-> [f \in { "title", "notes", "due", "status" } |-> Absent],
                  requestBody |-> [f \in { "title", "notes", "due", "status" } |-> Absent]]]]

\* ------------------------------------------------------------------------
\* State
\* ------------------------------------------------------------------------

VARIABLES
  flow,      \* per browser flow: the request in flight and the handler's position
  jar,       \* the browser's consent cookie
  redeemed,  \* the codes the upstream token endpoint has accepted
  codec,     \* the state codec applied to one AuthRequest
  agent,     \* the MCP agent: its tool registry, the upstream data, the last tool call
  calendar,  \* one call of calendar_findFreeTime: its arguments, the busy intervals, the slots
  tasks      \* one task upstream, and the calls of _updateTaskHelper on it

\* The state of the tools, which the authorization handlers leave alone.
toolVars == << agent, calendar, tasks >>

vars == << flow, jar, redeemed, codec, toolVars >>

IdleFlow ==
  [pc |-> "idle",
   origin |-> "",            \* the request the flow began with
   route |-> "",             \* the request handled last
   req |-> Undefined,        \* the AuthRequest parseAuthRequest returned at GET /authorize
   approved |-> FALSE,       \* what clientIdAlreadyApproved returned
   request |-> [origin |-> Origin, cookie |-> NoCookie, form |-> NoForm, remember |-> FALSE],
   state |-> Undefined,      \* c.req.query("state")
   code |-> Undefined,       \* c.req.query("code")
   oauthReqInfo |-> Undefined,
   accessToken |-> NoToken,
   user |-> NoUser,
   calls |-> << >>,          \* the outbound calls of the request being handled
   completed |-> NoArgs,     \* the argument completeAuthorization was called with
   resp |-> NoResponse]      \* the response to the last request

IdleCodec == [pc |-> "idle", R |-> Undefined, encoded |-> << >>, decoded |-> Undefined]

InitFlows ==
  /\ flow = [f \in Flows |-> IdleFlow]
  /\ jar = NoCookie
  /\ redeemed = {}

\* The agent before init, with every upstream item in place and no tool
\* called.
IdleAgent ==
  [ready |-> FALSE, tools |-> {},
   mail |-> [m \in MessageIds |-> "live"],
   files |-> [d \in FileIds |-> "live"],
   lists |-> [l \in TaskListIds |-> "live"],
   call |-> NoCall]

Init ==
  /\ InitFlows /\ codec = IdleCodec
  /\ agent = IdleAgent /\ calendar = IdleCalendar /\ tasks = IdleTasks

\* ------------------------------------------------------------------------
\* Actions: the browser, the handlers, the upstream provider
\* ------------------------------------------------------------------------

\* Where a flow stands after a response to an /authorize request.
AfterAuthorize(resp) ==
  IF resp.status = 302 THEN "redirected"
  ELSE IF resp.status = 200 THEN "dialog"
  ELSE "error"

\* The browser requests GET /authorize for the AuthRequest r, carrying a
\* cookie, and app.get("/authorize") answers it.
GetAuthorize(f, r, cookie) ==
  /\ flow[f].pc = "idle"
  /\ LET request == [origin |-> Origin, cookie |-> cookie, form |-> NoForm, remember |-> FALSE]
         h == AuthorizeGet(request, r)
         resp == HonoResponse(h.result)
     IN flow' = [flow EXCEPT ![f] =
          [@ EXCEPT !.pc = AfterAuthorize(resp), !.origin = "GET /authorize",
                    !.route = "GET /authorize", !.req = r, !.approved = h.approved, !.request = request,
                    !.calls = h.calls, !.resp = resp]]
  /\ UNCHANGED << jar, redeemed, codec, toolVars >>

\* The user submits the approval form the dialog showed; the request takes
\* the cookie the browser holds now.
SubmitApproval(f, remember) ==
  /\ flow[f].pc = "dialog"
  /\ flow' = [flow EXCEPT ![f] =
       [@ EXCEPT !.pc = "posting", !.route = "POST /authorize", !.calls = << >>,
                 !.request = [origin |-> Origin, cookie |-> jar,
                              form |-> flow[f].resp.form, remember |-> remember]]]
  /\ UNCHANGED << jar, redeemed, codec, toolVars >>

\* A POST /authorize that follows no dialog, with a hand-made form.
PostForm(f, form, remember) ==
  /\ flow[f].pc = "idle"
  /\ flow' = [flow EXCEPT ![f] =
       [@ EXCEPT !.pc = "posting", !.origin = "POST /authorize",
                 !.route = "POST /authorize",
                 !.request = [origin |-> Origin, cookie |-> jar,
                              form |-> form, remember |-> remember]]]
  /\ UNCHANGED << jar, redeemed, codec, toolVars >>

\* app.post("/authorize") answers; the browser stores the cookie a
\* Set-Cookie header carries.
PostAuthorize(f) ==
  /\ flow[f].pc = "posting"
  /\ LET resp == HonoResponse(AuthorizePost(flow[f].request)) IN
     /\ flow' = [flow EXCEPT ![f] =
          [@ EXCEPT !.pc = AfterAuthorize(resp),
                    !.calls = << "parseRedirectApproval" >>, !.resp = resp]]
     /\ jar' = IF resp.setCookie # NoCookie THEN resp.setCookie ELSE jar
  /\ UNCHANGED << redeemed, codec, toolVars >>

\* The browser follows the redirect; the upstream provider sends it back to
\* redirect_uri with the state unmodified and a fresh code, or without a
\* code when the user declines.  The new request is a GET without form; the
\* handler reads its URL only.
UpstreamReturn(f, code) ==
  /\ flow[f].pc = "redirected"
  /\ code.t = "str" => code.s \notin redeemed
  /\ flow' = [flow EXCEPT ![f] =
       [@ EXCEPT !.pc = "callback", !.route = "GET /callback", !.calls = << >>,
                 !.request = IdleFlow.request,
                 !.state = JStr(flow[f].resp.location.query.state),
                 !.code = code]]
  /\ UNCHANGED << jar, redeemed, codec, toolVars >>

\* A GET /callback that follows no redirect, with a hand-made query.
GetCallback(f, state, code) ==
  /\ flow[f].pc = "idle"
  /\ flow' = [flow EXCEPT ![f] =
       [@ EXCEPT !.pc = "callback", !.origin = "GET /callback",
                 !.route = "GET /callback",
                 !.state = state, !.code = code]]
  /\ UNCHANGED << jar, redeemed, codec, toolVars >>

\* app.get("/callback") checks the query and decodes the state; it answers,
\* or calls fetchUpstreamAuthToken.
CallbackBegin(f) ==
  /\ flow[f].pc = "callback"
  /\ LET h == CallbackStart(flow[f].state, flow[f].code) IN
     flow' = [flow EXCEPT ![f] =
       [@ EXCEPT !.pc = IF h.next THEN "token" ELSE "error",
                 !.oauthReqInfo = h.oauthReqInfo,
                 !.calls = IF h.next THEN << "fetchUpstreamAuthToken" >> ELSE << >>,
                 !.resp = IF h.next THEN NoResponse ELSE HonoResponse(h.result)]]
  /\ UNCHANGED << jar, redeemed, codec, toolVars >>

\* The token endpoint answers: it accepts a code it issued once.  The
\* handler returns the error response, or fetches the user info.
TokenReply(f, accepted) ==
  /\ flow[f].pc = "token"
  /\ accepted => flow[f].code.s \in Codes \ redeemed
  /\ LET got == FetchUpstreamAuthToken(TokenRequest(flow[f].request, flow[f].code), accepted)
         h == CallbackAfterToken(got.accessToken, got.errResponse)
     IN flow' = [flow EXCEPT ![f] =
          [@ EXCEPT !.pc = IF h.next THEN "userinfo" ELSE "error",
                    !.accessToken = got.accessToken,
                    !.calls = IF h.next THEN Append(@, "userinfo") ELSE @,
                    !.resp = IF h.next THEN NoResponse ELSE HonoResponse(h.result)]]
  /\ redeemed' = IF accepted THEN redeemed \cup { flow[f].code.s } ELSE redeemed
  /\ UNCHANGED << jar, codec, toolVars >>

\* What the handler does when completeAuthorization throws: nothing, the
\* exception escapes.
OnCompleteThrown(calls) == [pc |-> "error", calls |-> calls]

\* The user-info endpoint answers (ok only for a token it knows).  The
\* handler returns 500, or calls completeAuthorization.
UserInfoReply(f, ok) ==
  /\ flow[f].pc = "userinfo"
  /\ ok => flow[f].accessToken # NoToken
  /\ LET userResponse == [ok |-> ok,
                          json |-> IF ok THEN UserOf(flow[f].accessToken) ELSE NoUser]
         h == CallbackAfterUserInfo(userResponse)
     IN flow' = [flow EXCEPT ![f] =
          [@ EXCEPT !.pc = IF h.next THEN "completing" ELSE "error",
                    !.user = IF h.next THEN userResponse.json ELSE @,
                    !.completed = IF h.next
                                  THEN CompleteAuthorizationArgs(flow[f].oauthReqInfo,
                                         userResponse.json, flow[f].accessToken)
                                  ELSE @,
                    !.calls = IF h.next THEN Append(@, "completeAuthorization") ELSE @,
                    !.resp = IF h.next THEN NoResponse ELSE HonoResponse(h.result)]]
  /\ UNCHANGED << jar, redeemed, codec, toolVars >>

\* completeAuthorization returns its redirectTo and the handler redirects,
\* or it throws.
CompleteReply(f, returns) ==
  /\ flow[f].pc = "completing"
  /\ flow' = [flow EXCEPT ![f] =
       IF returns
       THEN [@ EXCEPT !.pc = "done",
                      !.resp = HonoResponse(CallbackRedirect(RedirectTo(flow[f].completed)))]
       ELSE [@ EXCEPT !.pc = OnCompleteThrown(flow[f].calls).pc,
                      !.calls = OnCompleteThrown(flow[f].calls).calls,
                      !.resp = IF OnCompleteThrown(flow[f].calls).pc = "error"
                               THEN HonoResponse(Thrown) ELSE NoResponse]]
  /\ UNCHANGED << jar, redeemed, codec, toolVars >>

Next ==
  \/ \E f \in Flows, r \in FlowRequests, cookie \in { jar } \cup ForgedCookies :
       GetAuthorize(f, r, cookie)
  \/ \E f \in Flows, remember \in BOOLEAN : SubmitApproval(f, remember)
  \/ \E f \in Flows, form \in PostForms, remember \in BOOLEAN : PostForm(f, form, remember)
  \/ \E f \in Flows : PostAuthorize(f)
  \/ \E f \in Flows, code \in CallbackCodes : UpstreamReturn(f, code)
  \/ \E f \in Flows, state \in CallbackStates, code \in CallbackCodes : GetCallback(f, state, code)
  \/ \E f \in Flows : CallbackBegin(f)
  \/ \E f \in Flows, accepted \in BOOLEAN : TokenReply(f, accepted)
  \/ \E f \in Flows, ok \in BOOLEAN : UserInfoReply(f, ok)
  \/ \E f \in Flows, returns \in BOOLEAN : CompleteReply(f, returns)

Spec == Init /\ [][Next]_vars

\* ------------------------------------------------------------------------
\* The state codec on its own: encode one AuthRequest, decode the result
\* ------------------------------------------------------------------------

\* The AuthRequests the codec is applied to.
CodecRequests ==
  { AuthRequest(c, << 117 >>, scope, st, ch) :
      c \in ClientIds,
      scope \in { << >>, << << 115 >> >>, << << 115 >>, << 116 >> >> },
      st \in StringsUpTo(Alphabet, MaxStateLen),
      ch \in { Undefined, JStr(<< 104 >>) } }

InitCodec ==
  /\ InitFlows
  /\ agent = IdleAgent
  /\ calendar = IdleCalendar
  /\ tasks = IdleTasks
  /\ codec \in { [pc |-> "request", R |-> r, encoded |-> << >>, decoded |-> Undefined] :
                   r \in CodecRequests }

\* redirectToGoogle: state = btoa(JSON.stringify(oauthReqInfo))
CodecEncode ==
  /\ codec.pc = "request"
  /\ LET state == StateEncode(codec.R) IN
     codec' = IF state.ok
              THEN [codec EXCEPT !.pc = "encoded", !.encoded = state.s]
              ELSE [codec EXCEPT !.pc = "encode threw"]
  /\ UNCHANGED << flow, jar, redeemed, toolVars >>

\* GET /callback: oauthReqInfo = JSON.parse(atob(state))
CodecDecode ==
  /\ codec.pc = "encoded"
  /\ LET decoded == StateDecode(codec.encoded) IN
     codec' = IF decoded.ok
              THEN [codec EXCEPT !.pc = "decoded", !.decoded = decoded.v]
              ELSE [codec EXCEPT !.pc = "decode threw"]
  /\ UNCHANGED << flow, jar, redeemed, toolVars >>

NextCodec == CodecEncode \/ CodecDecode

SpecCodec == InitCodec /\ [][NextCodec]_vars

\* ------------------------------------------------------------------------
\* The agent and its tools on their own
\* ------------------------------------------------------------------------

\* The agent starts: init() runs once.
AgentStart ==
  /\ ~agent.ready
  /\ agent' = [agent EXCEPT !.ready = TRUE, !.tools = AgentInit(@)]
  /\ UNCHANGED << flow, jar, redeemed, codec, calendar, tasks >>

\* A call of gmail_deleteEmail.
CallGmailDeleteEmail(messageId, arg, fails) ==
  LET error == ApiError(agent.mail[messageId], fails)
      h == GmailDeleteEmail(messageId, ZodDefaultFalse(arg), error)
  IN /\ agent' = [agent EXCEPT
            !.mail = Upstream(@, h.api, error),
            !.call = [tool |-> "gmail_deleteEmail", id |-> messageId, permanently |-> arg,
                      api |-> h.api, text |-> h.text]]
     /\ UNCHANGED << flow, jar, redeemed, codec, calendar, tasks >>

\* A call of drive_deleteFile.
CallDriveDeleteFile(fileId, arg, fails) ==
  LET error == ApiError(agent.files[fileId], fails)
      h == DriveDeleteFile(fileId, ZodDefaultFalse(arg), error)
  IN /\ agent' = [agent EXCEPT
            !.files = Upstream(@, h.api, error),
            !.call = [tool |-> "drive_deleteFile", id |-> fileId, permanently |-> arg,
                      api |-> h.api, text |-> h.text]]
     /\ UNCHANGED << flow, jar, redeemed, codec, calendar, tasks >>

\* A call of tasks_deleteTaskList.
CallTasksDeleteTaskList(taskListId, fails) ==
  LET error == ApiError(agent.lists[taskListId], fails)
      h == TasksDeleteTaskList(taskListId, error)
  IN /\ agent' = [agent EXCEPT
            !.lists = Upstream(@, h.api, error),
            !.call = [tool |-> "tasks_deleteTaskList", id |-> taskListId,
                      permanently |-> NoCall.permanently,
                      api |-> h.api, text |-> h.text]]
     /\ UNCHANGED << flow, jar, redeemed, codec, calendar, tasks >>

NextTools ==
  \/ AgentStart
  \/ \E m \in MessageIds, arg \in PermanentlyArgs, fails \in BOOLEAN :
       CallGmailDeleteEmail(m, arg, fails)
  \/ \E d \in FileIds, arg \in PermanentlyArgs, fails \in BOOLEAN :
       CallDriveDeleteFile(d, arg, fails)
  \/ \E l \in TaskListIds, fails \in BOOLEAN : CallTasksDeleteTaskList(l, fails)

SpecTools == Init /\ [][NextTools]_vars

\* ------------------------------------------------------------------------
\* calendar_findFreeTime on its own
\* ------------------------------------------------------------------------

\* A call with its arguments, and the busy intervals the free/busy query
\* reports for it.
InitCalendar ==
  /\ InitFlows /\ codec = IdleCodec /\ agent = IdleAgent /\ tasks = IdleTasks
  /\ calendar \in { [pc |-> "called", startTime |-> 60000, endTime |-> (MaxTime - 2) * 60000,
                      durationMinutes |-> d, busy |-> b, freeSlots |-> << >>] :
                       d \in 1..2, b \in BusyLists }

\* The handler computes the free slots.
CallFindFreeTime ==
  /\ calendar.pc = "called"
  /\ calendar' = [calendar EXCEPT
        !.pc = "returned",
        !.freeSlots = FindFreeTime(calendar.startTime, calendar.endTime,
                                   calendar.durationMinutes, calendar.busy)]
  /\ UNCHANGED << flow, jar, redeemed, codec, agent, tasks >>

SpecCalendar == InitCalendar /\ [][CallFindFreeTime]_vars

\* ------------------------------------------------------------------------
\* The tasks tools on their own: two calls of _updateTaskHelper on one task
\* ------------------------------------------------------------------------

\* tasks_completeTask and tasks_updateTask have been called for the same
\* task; each call is about to run _updateTaskHelper.
InitTasks ==
  /\ InitFlows /\ codec = IdleCodec /\ agent = IdleAgent /\ calendar = IdleCalendar
  /\ tasks \in
       { [IdleTasks EXCEPT
            !.stored = t,
            !.helper["tasks_completeTask"].pc = "get",
            !.helper["tasks_completeTask"].updates.status = "completed",
            !.helper["tasks_updateTask"].pc = "get",
            !.helper["tasks_updateTask"].updates = u] :
           t \in StoredTasks, u \in UpdateArgs }

\* tasks.tasks.get: the helper reads the current task.
HelperGet(p) ==
  /\ tasks.helper[p].pc = "get"
  /\ tasks' = [tasks EXCEPT !.helper[p].pc = "update",
                             !.helper[p].currentTask = tasks.stored]
  /\ UNCHANGED << flow, jar, redeemed, codec, agent, calendar >>

\* tasks.tasks.update: the helper sends the body and the service stores it
\* in place of the task.
HelperUpdate(p) ==
  /\ tasks.helper[p].pc = "update"
  /\ LET requestBody == RequestBody(tasks.helper[p].currentTask, tasks.helper[p].updates) IN
     tasks' = [tasks EXCEPT !.helper[p].pc = "done",
                            !.helper[p].before = tasks.stored,
                            !.helper[p].requestBody = requestBody,
                            !.stored = requestBody]
  /\ UNCHANGED << flow, jar, redeemed, codec, agent, calendar >>

NextTasks ==
  \/ \E p \in DOMAIN tasks.helper : HelperGet(p)
  \/ \E p \in DOMAIN tasks.helper : HelperUpdate(p)

SpecTasks == InitTasks /\ [][NextTasks]_vars

\* ------------------------------------------------------------------------
\* Properties
\* ------------------------------------------------------------------------

\* The flows whose last request, to the given route, has been answered or
\* is past the handler's first step.
Handled(f, route) ==
  /\ flow[f].route = route
  /\ flow[f].pc \notin { "idle", "posting", "callback" }

\* The flows whose last request has its response.
Answered(f, route) ==
  /\ flow[f].route = route
  /\ flow[f].pc \in { "dialog", "redirected", "done", "error" }

IsClientError(resp) == resp.status >= 400 /\ resp.status <= 499

\* A redirect to the upstream authorize URL.
IsUpstreamRedirect(resp) ==
  /\ resp.status = 302
  /\ resp.location.url = "https://accounts.google.com/o/oauth2/v2/auth"

\* How often a call occurs among the calls of a request.
Count(calls, name) == Cardinality({ i \in 1..Len(calls) : calls[i] = name })

\* A state value GET /callback cannot take an AuthRequest with a client
\* identifier from: not base64, not JSON, or without clientId.
FailsDecode(state) ==
  LET decoded == StateDecode(state) IN
  \/ ~decoded.ok
  \/ decoded.v.t = "null"
  \/ ~Truthy(Get(decoded.v, Key.clientId))

\* C1: for every AuthRequest R, encoding R (JSON.stringify then btoa)
\* produces a state string, and decoding that string (atob then JSON.parse)
\* yields a request equal to R in every field.
C1_StateRoundTrip ==
  /\ codec.pc \notin { "encode threw", "decode threw" }
  /\ codec.pc = "decoded" => SameRequest(codec.decoded, codec.R)

\* C1, the case that fails: an AuthRequest whose state holds a character
\* above U+00FF has been given to the encoder, which threw.
C1_EncodeThrew ==
  /\ codec.pc = "encode threw"
  /\ \E i \in 1..Len(Get(codec.R, Key.state).s) : Get(codec.R, Key.state).s[i] > 255

\* C2: a GET /callback without the state or without the code parameter is
\* answered with a 4xx response and the token endpoint is not called, for
\* every combination of the two parameters.
C2_MissingParameter400 ==
  \A f \in Flows :
    (Answered(f, "GET /callback") /\ (~Truthy(flow[f].state) \/ ~Truthy(flow[f].code)))
    => /\ IsClientError(flow[f].resp)
       /\ Count(flow[f].calls, "fetchUpstreamAuthToken") = 0

\* C2, the case that fails: an undecodable state with a missing code.
C2_UndecodableStateNoCode ==
  \E f \in Flows :
    /\ Answered(f, "GET /callback")
    /\ Truthy(flow[f].state) /\ ~StateDecode(flow[f].state.s).ok
    /\ ~Truthy(flow[f].code)

\* C3: a GET /callback whose state fails to decode (not base64, not JSON,
\* or no client identifier in the decoded object) is answered with 400, and
\* the token endpoint, the user-info endpoint and completeAuthorization are
\* not called.
C3_UndecodableState400 ==
  \A f \in Flows :
    (Answered(f, "GET /callback") /\ Truthy(flow[f].state) /\ FailsDecode(flow[f].state.s))
    => /\ flow[f].resp.status = 400
       /\ flow[f].calls = << >>

\* C3, the case that fails: a state that is not base64, or not JSON, was
\* answered.
C3_MalformedStateAnswered ==
  \E f \in Flows :
    /\ Answered(f, "GET /callback")
    /\ Truthy(flow[f].state) /\ ~StateDecode(flow[f].state.s).ok

\* C4: a GET /authorize whose parsed request has no client identifier is
\* answered with a 4xx response; no redirect is issued and neither the
\* consent cookie check nor lookupClient runs.
C4_NoClientId400 ==
  \A f \in Flows :
    (Handled(f, "GET /authorize") /\ ~Truthy(Get(flow[f].req, Key.clientId)))
    => /\ IsClientError(flow[f].resp)
       /\ flow[f].resp.location.url = ""
       /\ Count(flow[f].calls, "clientIdAlreadyApproved") = 0
       /\ Count(flow[f].calls, "lookupClient") = 0

\* C4, its case: a GET /authorize without a client identifier, carrying a
\* cookie, was answered 400.
C4_Witness ==
  \E f \in Flows :
    /\ Handled(f, "GET /authorize")
    /\ Get(flow[f].req, Key.clientId) = JStr(<< >>)
    /\ flow[f].request.cookie # NoCookie
    /\ flow[f].resp.status = 400

\* C5: when GET /callback has a decodable state and a code, the token
\* endpoint returned the token T and the user-info endpoint the claims of
\* subject S, completeAuthorization is called with the decoded request,
\* userId S and props of the claims and T, and once it returns redirectTo
\* the response is the redirect to exactly that URL.
C5_CompletionArguments ==
  \A f \in Flows :
    LET T == TokenOf(flow[f].code.s)
        claims == UserOf(T)
    IN (flow[f].route = "GET /callback" /\ flow[f].user # NoUser)
       => /\ flow[f].accessToken = T
          /\ flow[f].user = claims
          /\ Count(flow[f].calls, "completeAuthorization") >= 1
          /\ flow[f].completed.request = StateDecode(flow[f].state.s).v
          /\ flow[f].completed.userId = claims.sub
          /\ flow[f].completed.props =
               [sub |-> claims.sub, name |-> claims.name, email |-> claims.email,
                accessToken |-> T]
          /\ flow[f].pc = "done" =>
               /\ flow[f].resp.status = 302
               /\ flow[f].resp.location = RedirectTo(flow[f].completed)

\* C5, its case: a callback went through the token exchange, the user-info
\* fetch and completeAuthorization, and was answered with the redirect.
C5_Witness ==
  \E f \in Flows :
    /\ flow[f].pc = "done"
    /\ flow[f].completed.userId = "u1"
    /\ flow[f].completed.props.accessToken = "token-1"
    /\ flow[f].resp.status = 302

\* C6: in a flow that began at GET /authorize and in which the state came
\* back unmodified, the request given to completeAuthorization equals the
\* request parsed at GET /authorize in every field, through the approval
\* dialog and POST /authorize as well as through the cookie shortcut.
C6_RequestPreserved ==
  \A f \in Flows :
    (flow[f].origin = "GET /authorize" /\ Count(flow[f].calls, "completeAuthorization") >= 1)
    => /\ SameRequest(flow[f].completed.request, flow[f].req)
       /\ Get(flow[f].completed.request, Key.clientId) = Get(flow[f].req, Key.clientId)

\* C6, its case: one flow completed through the dialog and another through
\* the cookie shortcut.
C6_Witness ==
  \E f, g \in Flows :
    /\ flow[f].origin = "GET /authorize" /\ flow[f].pc = "done" /\ ~flow[f].approved
    /\ flow[g].origin = "GET /authorize" /\ flow[g].pc = "done" /\ flow[g].approved

\* C7: over the GET /callback requests that carry the same state value,
\* completeAuthorization is called at most once.
C7_OncePerState ==
  \A f, g \in Flows :
    ( /\ f # g
      /\ Count(flow[f].calls, "completeAuthorization") >= 1
      /\ Count(flow[g].calls, "completeAuthorization") >= 1 )
    => flow[f].state # flow[g].state

\* C7, the case that fails: two callbacks carried the same state value with
\* two codes the upstream provider accepted, and both were completed.
C7_SameStateCompletedTwice ==
  \E f, g \in Flows :
    /\ f # g
    /\ flow[f].state = flow[g].state /\ Truthy(flow[f].state)
    /\ flow[f].code # flow[g].code
    /\ flow[f].pc = "done" /\ flow[g].pc = "done"

\* C8: GET /authorize redirects to the upstream provider only if the
\* consent cookie check returned true for the request's client identifier
\* under the current secret; with a client identifier and a check that
\* returned false the approval dialog is rendered and no redirect issued.
C8_RedirectOnlyIfApproved ==
  \A f \in Flows :
    LET clientId == Get(flow[f].req, Key.clientId)
        check == ClientIdAlreadyApproved(flow[f].request, clientId.s, Env.COOKIE_ENCRYPTION_KEY)
    IN Handled(f, "GET /authorize")
       => /\ (flow[f].resp.status = 302 \/ flow[f].resp.location.url # "")
             => (Truthy(clientId) /\ check)
          /\ (Truthy(clientId) /\ ~check)
             => /\ flow[f].resp.status = 200
                /\ flow[f].resp.form = FormEncode(JObj(<< Key.oauthReqInfo >>, << flow[f].req >>))
                /\ flow[f].resp.location.url = ""
                /\ Count(flow[f].calls, "renderApprovalDialog") = 1

\* C8, its case: one flow was shown the dialog because the check returned
\* false and went on through POST /authorize; a later GET /authorize for
\* which the check returned true got the redirect.
C8_Witness ==
  \E f, g \in Flows :
    /\ flow[f].origin = "GET /authorize" /\ ~flow[f].approved
    /\ flow[f].route = "POST /authorize" /\ flow[f].pc = "redirected"
    /\ Handled(g, "GET /authorize")
    /\ flow[g].approved
    /\ IsUpstreamRedirect(flow[g].resp)

\* C9: a GET /authorize that carries the cookie an earlier POST /authorize
\* with the remember option issued for the request's client, under the
\* unchanged secret, is answered with a 302 to the upstream authorize URL
\* and no approval dialog is rendered.
C9_RepeatAuthorizeRedirects ==
  \A f \in Flows :
    LET clientId == Get(flow[f].req, Key.clientId)
        cookie == flow[f].request.cookie
    IN ( /\ Handled(f, "GET /authorize")
         /\ Truthy(clientId)
         /\ cookie = SignedCookie(cookie.payload, Env.COOKIE_ENCRYPTION_KEY)
         /\ clientId.s \in cookie.payload )
       => /\ IsUpstreamRedirect(flow[f].resp)
          /\ Count(flow[f].calls, "renderApprovalDialog") = 0

\* C9, the case that fails: the repeated GET /authorize of an approved
\* client whose request carries a state with a character above U+00FF.
C9_RepeatWithWideState ==
  \E f \in Flows :
    /\ Handled(f, "GET /authorize")
    /\ flow[f].approved
    /\ flow[f].request.cookie = jar
    /\ ~StateEncode(flow[f].req).ok
    /\ flow[f].resp.status = 500

\* C10: a POST /authorize whose form carries the encoded state of an
\* AuthRequest, with the remember option, is answered with a 302 to the
\* upstream authorize URL whose state decodes to that AuthRequest, and the
\* response carries the Set-Cookie header of the consent cookie manager.
C10_PostRememberRedirects ==
  \A f \in Flows :
    LET request == flow[f].request
        info == Get(request.form.v, Key.oauthReqInfo)
    IN ( /\ Answered(f, "POST /authorize")
         /\ request.form.codec = "state"
         /\ Truthy(Get(info, Key.clientId))
         /\ request.remember )
       => /\ IsUpstreamRedirect(flow[f].resp)
          /\ StateDecode(flow[f].resp.location.query.state).ok
          /\ SameRequest(StateDecode(flow[f].resp.location.query.state).v, info)
          /\ flow[f].resp.setCookie =
               ParseRedirectApproval(request, Env.COOKIE_ENCRYPTION_KEY).headers.setCookie
          /\ flow[f].resp.setCookie # NoCookie

\* C10, the case that fails: the approval form the dialog showed for a
\* request whose state holds a character above U+00FF, submitted with the
\* remember option.
C10_DialogFormWithWideState ==
  \E f \in Flows :
    /\ Answered(f, "POST /authorize")
    /\ flow[f].origin = "GET /authorize"
    /\ flow[f].request.remember
    /\ flow[f].request.form = FormEncode(JObj(<< Key.oauthReqInfo >>, << flow[f].req >>))
    /\ ~StateEncode(flow[f].req).ok
    /\ flow[f].resp.status = 500
    /\ flow[f].resp.setCookie = NoCookie

\* The client identifier a POST /authorize form names.
FormClient(request) == Get(Get(request.form.v, Key.oauthReqInfo), Key.clientId)

\* C11: a client the request's cookie does not name is not approved; the
\* cookie a POST /authorize with the remember option sets approves the
\* form's client under the same secret and keeps the clients approved
\* before; a later GET /authorize carrying such a cookie finds its client
\* approved.
C11_ApprovalCookieAddsClient ==
  \A f \in Flows :
    LET request == flow[f].request
        secret == Env.COOKIE_ENCRYPTION_KEY
        clientId == Get(flow[f].req, Key.clientId)
    IN /\ (Handled(f, "GET /authorize") /\ Truthy(clientId))
          => /\ clientId.s \notin request.cookie.payload => ~flow[f].approved
             /\ ( /\ request.cookie = SignedCookie(request.cookie.payload, secret)
                  /\ clientId.s \in request.cookie.payload ) => flow[f].approved
       /\ ( /\ Answered(f, "POST /authorize")
            /\ flow[f].resp.status = 302
            /\ request.remember
            /\ Truthy(FormClient(request)) )
          => LET later == [request EXCEPT !.cookie = flow[f].resp.setCookie] IN
             /\ ClientIdAlreadyApproved(later, FormClient(request).s, secret)
             /\ \A d \in ApprovedClients(request.cookie, secret) :
                  ClientIdAlreadyApproved(later, d, secret)

\* C11, its case: a browser that had approved client "b" approved client
\* "a" with the remember option, and the cookie set names both.
C11_Witness ==
  \E f \in Flows :
    /\ Answered(f, "POST /authorize")
    /\ flow[f].resp.status = 302
    /\ flow[f].request.remember
    /\ FormClient(flow[f].request) = JStr(<< 97 >>)
    /\ ApprovedClients(flow[f].request.cookie, Env.COOKIE_ENCRYPTION_KEY) = { << 98 >> }
    /\ ApprovedClients(flow[f].resp.setCookie, Env.COOKIE_ENCRYPTION_KEY) = ClientIds

\* C12: a cookie the consent cookie manager issued under a secret other
\* than the current one approves no client: GET /authorize with such a
\* cookie finds the client not approved and issues no redirect.
C12_OtherSecretNeverAccepted ==
  \A f \in Flows :
    LET cookie == flow[f].request.cookie IN
    ( /\ Handled(f, "GET /authorize")
      /\ cookie # NoCookie
      /\ cookie.mac.key # Env.COOKIE_ENCRYPTION_KEY
      /\ cookie = SignedCookie(cookie.payload, cookie.mac.key) )
    => /\ ~flow[f].approved
       /\ ~IsUpstreamRedirect(flow[f].resp)
       /\ \A c \in ClientIds :
            ~ClientIdAlreadyApproved(flow[f].request, c, Env.COOKIE_ENCRYPTION_KEY)

\* C12, its case: a GET /authorize for client "a" carried a cookie that
\* names "a" and is signed with the secret "K0", and got the dialog.
C12_Witness ==
  \E f \in Flows :
    /\ Handled(f, "GET /authorize")
    /\ Get(flow[f].req, Key.clientId) = JStr(<< 97 >>)
    /\ flow[f].request.cookie = SignedCookie(ClientIds, "K0")
    /\ flow[f].resp.status = 200

\* A cookie that is present and does not verify under the current secret
\* for the payload it carries.
IsBadCookie(cookie) ==
  /\ cookie # NoCookie
  /\ cookie # SignedCookie(cookie.payload, Env.COOKIE_ENCRYPTION_KEY)

\* C13: a GET /authorize with a client identifier and a missing, unsigned,
\* tampered or malformed cookie is not answered with an error: the check
\* returns false and the approval dialog is rendered.
C13_BadCookieShowsDialog ==
  \A f \in Flows :
    ( /\ Handled(f, "GET /authorize")
      /\ Truthy(Get(flow[f].req, Key.clientId))
      /\ (flow[f].request.cookie = NoCookie \/ IsBadCookie(flow[f].request.cookie)) )
    => /\ ~flow[f].approved
       /\ flow[f].resp.status = 200
       /\ Count(flow[f].calls, "renderApprovalDialog") = 1

\* C13, its case: the dialog was rendered for a request with a tampered
\* cookie and for one with a malformed or unsigned cookie.
C13_Witness ==
  \E f, g \in Flows :
    /\ Handled(f, "GET /authorize") /\ flow[f].resp.status = 200
    /\ flow[f].request.cookie = TamperedCookie
    /\ Handled(g, "GET /authorize") /\ flow[g].resp.status = 200
    /\ flow[g].request.cookie \in { MalformedCookie, UnsignedCookie }

\* The outbound call a GET /callback made last.
LastCall(f) == IF flow[f].calls = << >> THEN "" ELSE flow[f].calls[Len(flow[f].calls)]

\* C14: when the token exchange of a GET /callback returned an error
\* response, the handler answers with that response unchanged, and neither
\* the user-info endpoint nor completeAuthorization is called.
C14_TokenErrorVerbatim ==
  \A f \in Flows :
    ( /\ flow[f].route = "GET /callback"
      /\ Count(flow[f].calls, "fetchUpstreamAuthToken") >= 1
      /\ flow[f].pc # "token"
      /\ flow[f].accessToken = NoToken )
    => /\ flow[f].pc = "error"
       /\ flow[f].resp = UpstreamError
       /\ Count(flow[f].calls, "userinfo") = 0
       /\ Count(flow[f].calls, "completeAuthorization") = 0

\* C14, its case: a callback with a decodable state and a code the
\* upstream token endpoint rejected.
C14_Witness ==
  \E f \in Flows :
    /\ flow[f].route = "GET /callback"
    /\ flow[f].calls = << "fetchUpstreamAuthToken" >>
    /\ flow[f].pc = "error"
    /\ flow[f].accessToken = NoToken
    /\ flow[f].resp.body = "upstream: invalid_grant"

\* C15: when the token exchange succeeded and the user-info fetch returned
\* a non-2xx status, GET /callback ends with a 500-class plain-text
\* response that differs from the token-exchange error response;
\* completeAuthorization is not called and no redirect is issued.
C15_IdentityFetchFailure500 ==
  \A f \in Flows :
    ( /\ flow[f].route = "GET /callback"
      /\ LastCall(f) = "userinfo"
      /\ flow[f].pc = "error" )
    => /\ flow[f].accessToken # NoToken
       /\ flow[f].resp.status >= 500 /\ flow[f].resp.status <= 599
       /\ flow[f].resp.body = "Failed to fetch user info"
       /\ flow[f].resp # UpstreamError
       /\ flow[f].resp.location.url = ""
       /\ Count(flow[f].calls, "completeAuthorization") = 0
       /\ flow[f].completed = NoArgs

\* C15, its case: the token endpoint accepted the code and the user-info
\* endpoint answered with an error status.
C15_Witness ==
  \E f \in Flows :
    /\ flow[f].route = "GET /callback"
    /\ flow[f].calls = << "fetchUpstreamAuthToken", "userinfo" >>
    /\ flow[f].pc = "error"
    /\ flow[f].accessToken = "token-1"
    /\ flow[f].resp.status = 500

\* A submission parseRedirectApproval cannot take a state from: the form has
\* no hidden state field, or the field does not decode.
IsBadSubmission(request) == request.form.codec # "state"

\* C16: a POST /authorize whose form has no hidden state field, or whose
\* state field fails to decode, is answered with a 400-class response, with
\* no redirect to the upstream provider and no Set-Cookie header.
C16_BadSubmission400 ==
  \A f \in Flows :
    (Answered(f, "POST /authorize") /\ IsBadSubmission(flow[f].request))
    => /\ IsClientError(flow[f].resp)
       /\ ~IsUpstreamRedirect(flow[f].resp)
       /\ flow[f].resp.setCookie = NoCookie

\* C16, its case: one submission without the state field and one with an
\* undecodable field have both been answered, with status 500, and neither
\* answer carries a redirect or a cookie.
C16_BadSubmissionAnswered500 ==
  \E f, g \in Flows :
    /\ Answered(f, "POST /authorize") /\ flow[f].request.form = NoForm
    /\ Answered(g, "POST /authorize") /\ flow[g].request.form = GarbledForm
    /\ \A h \in { f, g } :
         /\ flow[h].resp = Text("Internal Server Error", 500)
         /\ flow[h].resp.location.url = ""
         /\ flow[h].resp.setCookie = NoCookie

\* Whether the response to a GET /callback carries a token: in its body, or
\* in the grant of the redirect back to the client.
ResponseCarries(f, token) ==
  \/ flow[f].resp.body = token
  \/ /\ flow[f].pc = "done"
     /\ \E i \in 1..Len(flow[f].resp.location.query.code) :
          flow[f].resp.location.query.code[i] = token

\* C17: the access token obtained upstream is never returned to the browser
\* or the downstream client.  Whatever answer a GET /callback gives after the
\* token exchange succeeded (the redirect, the identity-fetch failure, a
\* failed completion), its body and headers do not carry the token; of the
\* arguments of completeAuthorization only props holds it.
C17_TokenNeverReturned ==
  \A f \in Flows :
    (Answered(f, "GET /callback") /\ flow[f].accessToken # NoToken)
    => /\ ~ResponseCarries(f, flow[f].accessToken)
       /\ flow[f].resp.setCookie = NoCookie
       /\ Count(flow[f].calls, "completeAuthorization") >= 1
          => /\ flow[f].completed.props.accessToken = flow[f].accessToken
             /\ flow[f].completed.userId # flow[f].accessToken
             /\ flow[f].completed.metadata.label # flow[f].accessToken

\* C17, its case: a callback that ended with the redirect to the client and
\* one that ended on the identity-fetch failure, each holding a token.
C17_Witness ==
  \E f, g \in Flows :
    /\ flow[f].route = "GET /callback" /\ flow[f].pc = "done"
    /\ flow[f].accessToken = "token-1"
    /\ flow[f].completed.props.accessToken = "token-1"
    /\ flow[g].route = "GET /callback" /\ flow[g].pc = "error"
    /\ flow[g].accessToken = "token-2"
    /\ LastCall(g) = "userinfo"

\* GET /authorize or POST /authorize answered a flow's request with the
\* redirect to the upstream authorize URL.
RedirectedUpstream(f) ==
  /\ flow[f].route \in { "GET /authorize", "POST /authorize" }
  /\ flow[f].pc = "redirected"
  /\ IsUpstreamRedirect(flow[f].resp)

\* The AuthRequest a POST /authorize took from its form.
FormRequest(request) == Get(request.form.v, Key.oauthReqInfo)

\* C18: the scope parameter of every redirect to the upstream authorize URL
\* is the one fixed scope bundle, whatever the scope, the client or any
\* other field of the downstream request, and whether GET /authorize or
\* POST /authorize issued the redirect: any two such redirects ask for the
\* same scopes.
C18_ScopeFixed ==
  \A f, g \in Flows :
    (RedirectedUpstream(f) /\ RedirectedUpstream(g))
    => /\ flow[f].resp.location.query.scope = GoogleScopes
       /\ flow[f].resp.location.query.scope = flow[g].resp.location.query.scope

\* C18, its case: GET /authorize redirected for a request that asks for
\* scope "s" and POST /authorize redirected for one that asks for scope "t".
C18_Witness ==
  \E f, g \in Flows :
    /\ Handled(f, "GET /authorize") /\ IsUpstreamRedirect(flow[f].resp)
    /\ Get(flow[f].req, Key.scope) = JArr(<< JStr(<< 115 >>) >>)
    /\ Answered(g, "POST /authorize") /\ IsUpstreamRedirect(flow[g].resp)
    /\ Get(FormRequest(flow[g].request), Key.scope) = JArr(<< JStr(<< 116 >>) >>)

\* registerAllTools: the families of tools the server registers.
ToolFamilies == { "gmail", "calendar", "drive", "tasks", "contacts", "youtube" }

\* The OAuth scopes under which the upstream provider serves the API a tool
\* family calls with the access token: google.gmail, google.calendar,
\* google.drive, google.tasks, google.people, google.youtube.
ScopesServing(family) ==
  CASE family = "gmail" ->
         { "https://mail.google.com/",
           "https://www.googleapis.com/auth/gmail.modify",
           "https://www.googleapis.com/auth/gmail.readonly" }
    [] family = "calendar" ->
         { "https://www.googleapis.com/auth/calendar",
           "https://www.googleapis.com/auth/calendar.events",
           "https://www.googleapis.com/auth/calendar.readonly" }
    [] family = "drive" ->
         { "https://www.googleapis.com/auth/drive",
           "https://www.googleapis.com/auth/drive.file",
           "https://www.googleapis.com/auth/drive.readonly" }
    [] family = "tasks" ->
         { "https://www.googleapis.com/auth/tasks",
           "https://www.googleapis.com/auth/tasks.readonly" }
    [] family = "contacts" ->
         { "https://www.googleapis.com/auth/contacts",
           "https://www.googleapis.com/auth/contacts.readonly" }
    [] family = "youtube" ->
         { "https://www.googleapis.com/auth/youtube",
           "https://www.googleapis.com/auth/youtube.force-ssl",
           "https://www.googleapis.com/auth/youtube.readonly" }

\* The tool families a list of granted scopes serves.
FamiliesServed(scope) ==
  { family \in ToolFamilies :
      \E i \in 1..Len(scope) : scope[i] \in ScopesServing(family) }

\* C19: the scope bundle of every redirect to the upstream authorize URL
\* holds the identity scopes and, for every family of tools the server
\* registers (Gmail, Drive, Calendar, Tasks, Contacts, YouTube), a scope of
\* the API that family calls.
C19_ScopesCoverTools ==
  \A f \in Flows :
    RedirectedUpstream(f)
    => LET scope == flow[f].resp.location.query.scope IN
       /\ \E i \in 1..Len(scope) : scope[i] = "profile"
       /\ \E i \in 1..Len(scope) : scope[i] = "email"
       /\ FamiliesServed(scope) = ToolFamilies

\* C19, its case: a redirect was issued whose scopes serve the Gmail,
\* Calendar, Drive and Tasks tools and neither the Contacts nor the YouTube
\* tools.
C19_RedirectWithoutContactsYouTube ==
  \E f \in Flows :
    /\ RedirectedUpstream(f)
    /\ FamiliesServed(flow[f].resp.location.query.scope)
         = { "gmail", "calendar", "drive", "tasks" }

\* The outbound steps of GET /callback, in the order of the handler.
CallbackSteps == << "fetchUpstreamAuthToken", "userinfo", "completeAuthorization" >>

\* C20: within one GET /callback the outbound steps run in the order token
\* exchange, identity fetch, completeAuthorization, each at most once: the
\* calls made so far are an initial part of that sequence, the identity
\* fetch is made only with an access token the exchange returned, and
\* completeAuthorization is called only with the claims of a successful
\* identity fetch.
C20_StrictOrder ==
  \A f \in Flows :
    Handled(f, "GET /callback")
    => LET calls == flow[f].calls IN
       /\ Len(calls) <= Len(CallbackSteps)
       /\ calls = SubSeq(CallbackSteps, 1, Len(calls))
       /\ Count(calls, "userinfo") >= 1 => flow[f].accessToken # NoToken
       /\ Count(calls, "completeAuthorization") >= 1
          => /\ flow[f].accessToken # NoToken
             /\ flow[f].user # NoUser
             /\ flow[f].user = UserOf(flow[f].accessToken)

\* C20, its case: a callback ran all three steps and redirected, and another
\* stopped after a failed token exchange.
C20_Witness ==
  \E f, g \in Flows :
    /\ flow[f].route = "GET /callback" /\ flow[f].pc = "done"
    /\ flow[f].calls = CallbackSteps
    /\ flow[g].route = "GET /callback" /\ flow[g].pc = "error"
    /\ flow[g].calls = << "fetchUpstreamAuthToken" >>

\* A POST /authorize with the remember option, for a given client, has been
\* answered with the redirect and the flow began with GET /authorize.
RememberedApproval(f, clientId) ==
  /\ flow[f].origin = "GET /authorize"
  /\ Answered(f, "POST /authorize")
  /\ IsUpstreamRedirect(flow[f].resp)
  /\ flow[f].request.remember
  /\ FormClient(flow[f].request) = JStr(clientId)

\* C21: two /authorize flows of one browser for different clients are
\* independent under every interleaving of their requests: once both have
\* submitted the approval form with the remember option and have been
\* answered, the browser's consent cookie approves both clients.
C21_BothClientsApproved ==
  \A f, g \in Flows :
    (RememberedApproval(f, << 97 >>) /\ RememberedApproval(g, << 98 >>))
    => ClientIds \subseteq ApprovedClients(jar, Env.COOKIE_ENCRYPTION_KEY)

\* C21, its case: both forms were submitted before either answer arrived,
\* each answer set a cookie, and the cookie the browser holds at the end
\* approves one of the two clients only.
C21_ApprovalLost ==
  \E f, g \in Flows :
    /\ RememberedApproval(f, << 97 >>) /\ RememberedApproval(g, << 98 >>)
    /\ flow[f].request.cookie = NoCookie /\ flow[g].request.cookie = NoCookie
    /\ ApprovedClients(flow[f].resp.setCookie, Env.COOKIE_ENCRYPTION_KEY) = { << 97 >> }
    /\ ApprovedClients(flow[g].resp.setCookie, Env.COOKIE_ENCRYPTION_KEY) = { << 98 >> }
    /\ ApprovedClients(jar, Env.COOKIE_ENCRYPTION_KEY) = { << 98 >> }

\* C22: after the agent's init has run, every tool that registerAllTools
\* registers (Gmail, Calendar, Drive, Tasks, Contacts, YouTube) is in the
\* server's tool registry.
C22_AllToolsRegistered ==
  agent.ready => RegisteredByAll \subseteq agent.tools

\* C22, its case: init has run and the registry holds the tool "add" and
\* none of the Google API tools.
C22_OnlyAddRegistered ==
  /\ agent.ready
  /\ agent.tools = { "add" }
  /\ agent.tools \cap RegisteredByAll = {}

\* C23: gmail_deleteEmail and drive_deleteFile called without
\* permanently=true make one API call, the one that moves the item to the
\* trash, and never the permanent delete; the permanent delete is called
\* only when permanently is true.
C23_TrashUnlessPermanently ==
  LET call == agent.call
      permanently == call.permanently.given /\ call.permanently.v
  IN call.tool \in { "gmail_deleteEmail", "drive_deleteFile" }
     => /\ Len(call.api) = 1
        /\ call.api[1].id = call.id
        /\ ~permanently
           => /\ call.api[1].method \in { "gmail.users.messages.trash",
                                         "drive.files.update trashed" }
              /\ call.text # "permanently deleted"
        /\ call.api[1].method \in { "gmail.users.messages.delete", "drive.files.delete" }
           => permanently

\* C23, its case: gmail_deleteEmail was called with permanently omitted on
\* a message that is now in the trash, while a file deleted with
\* permanently=true earlier is gone.
C23_Witness ==
  /\ agent.call.tool = "gmail_deleteEmail"
  /\ ~agent.call.permanently.given
  /\ agent.call.text = "moved to trash"
  /\ agent.mail[agent.call.id] = "trashed"
  /\ \E d \in FileIds : agent.files[d] = "gone"

\* C24: tasks_deleteTaskList called for '@default' returns the error text
\* and makes no API call, so the default list stays; for any other id it
\* calls the task-list delete API exactly once, for that id.
C24_DefaultListKept ==
  /\ agent.lists["@default"] = "live"
  /\ agent.call.tool = "tasks_deleteTaskList"
     => IF agent.call.id = "@default"
        THEN /\ agent.call.api = << >>
             /\ agent.call.text = "cannot delete the default task list"
        ELSE agent.call.api = << [method |-> "tasks.tasklists.delete", id |-> agent.call.id] >>

\* C24, its case: the tool was called for '@default' after another list had
\* been deleted through it.
C24_Witness ==
  /\ agent.call.tool = "tasks_deleteTaskList"
  /\ agent.call.id = "@default"
  /\ agent.call.text = "cannot delete the default task list"
  /\ agent.lists["L1"] = "gone"

\* C25: completeAuthorization is called for a client only in a flow in
\* which consent for that client was established on this server before: the
\* flow began with GET /authorize or POST /authorize and was redirected
\* upstream.  A GET /callback that follows no such redirect completes no
\* authorization.
C25_CompletionNeedsConsent ==
  \A f \in Flows :
    ( /\ flow[f].route = "GET /callback"
      /\ Count(flow[f].calls, "completeAuthorization") >= 1 )
    => flow[f].origin \in { "GET /authorize", "POST /authorize" }

\* C25, its case: a GET /callback with a hand-made state naming client "a"
\* and a code the upstream provider accepts ended with the redirect to the
\* client, while no /authorize request was ever made and the browser holds
\* no consent cookie.
C25_CompletedWithoutConsent ==
  \E f \in Flows :
    /\ flow[f].origin = "GET /callback" /\ flow[f].pc = "done"
    /\ flow[f].state = JStr(ClientOnlyJson)
    /\ Get(flow[f].completed.request, Key.clientId) = JStr(<< 97 >>)
    /\ jar = NoCookie
    /\ \A g \in Flows \ { f } : flow[g].pc = "idle"

Overlaps(x, y) == x.start < y.end /\ y.start < x.end

\* [a, b] is a gap of the call: it lies in the search range, no busy
\* interval overlaps it, and it cannot be extended on either side.
IsGap(a, b) ==
  LET busy == calendar.busy
      BusyAt(x, y) == \E k \in 1..Len(busy) : Overlaps([start |-> x, end |-> y], busy[k])
  IN /\ calendar.startTime <= a /\ a < b /\ b <= calendar.endTime
     /\ ~BusyAt(a, b)
     /\ a = calendar.startTime \/ BusyAt(a - 60000, a)
     /\ b = calendar.endTime \/ BusyAt(b, b + 60000)

C28_SlotsWithinRange ==
  calendar.pc = "returned"
  => \A i \in 1..Len(calendar.freeSlots) :
       LET slot == calendar.freeSlots[i] IN
       /\ calendar.startTime <= slot.start
       /\ slot.end <= calendar.endTime
       /\ slot.start < slot.end

\* C28, its case: a busy interval begins after endTime and the slot
\* returned before it ends where that interval begins, after endTime.
C28_SlotBeyondEnd ==
  /\ calendar.pc = "returned"
  /\ calendar.busy = << [start |-> (MaxTime - 1) * 60000, end |-> MaxTime * 60000] >>
  /\ \E i \in 1..Len(calendar.freeSlots) :
       /\ calendar.freeSlots[i].start = calendar.startTime
       /\ calendar.freeSlots[i].end > calendar.endTime

\* C29: tasks_completeTask changes only the task's status: the title, notes
\* and due date stored after its write are the ones stored immediately
\* before it, also when a tasks_updateTask of the same task wrote between
\* the read and the write of the helper.
C29_CompleteChangesOnlyStatus ==
  LET h == tasks.helper["tasks_completeTask"] IN
  h.pc = "done"
  => /\ h.requestBody.status = "completed"
     /\ \A f \in { "title", "notes", "due" } : h.requestBody[f] = h.before[f]

\* C29, its case: tasks_completeTask read the task, tasks_updateTask then
\* changed title, notes and due date, and the write of tasks_completeTask
\* put the values it had read back in place.
C29_UpdateLost ==
  LET c == tasks.helper["tasks_completeTask"]
      u == tasks.helper["tasks_updateTask"]
  IN /\ c.pc = "done" /\ u.pc = "done"
     /\ u.requestBody = [title |-> "t2", notes |-> "n2", due |-> Absent, status |-> "needsAction"]
     /\ c.before = u.requestBody
     /\ tasks.stored = [title |-> "t1", notes |-> "n1", due |-> "d1", status |-> "completed"]

\* C30: in the body tasks_updateTask sends, each of title, notes, due and
\* status omitted from updates has the value of the task the helper read,
\* each given a value has that value, and notes or due given as null is
\* absent.
C30_UpdateBody ==
  LET h == tasks.helper["tasks_updateTask"] IN
  h.pc = "done"
  => \A f \in { "title", "notes", "due", "status" } :
       h.requestBody[f] = CASE h.updates[f] = "undefined" -> h.currentTask[f]
                            [] h.updates[f] = "null" -> Absent
                            [] OTHER -> h.updates[f]

\* C30, its case: an update that omits the title, clears the notes and
\* sets due date and status, on a task that has notes.
C30_Witness ==
  LET h == tasks.helper["tasks_updateTask"] IN
  /\ h.pc = "done"
  /\ h.updates = [title |-> "undefined", notes |-> "null", due |-> "d2", status |-> "completed"]
  /\ h.currentTask = [title |-> "t1", notes |-> "n1", due |-> "d1", status |-> "needsAction"]
  /\ h.requestBody = [title |-> "t1", notes |-> Absent, due |-> "d2", status |-> "completed"]

====
